---------------------------- MODULE Spec2Model ----------------------------
(***************************************************************************)
(* coda-mapper: the identity-map cache (CodaMapper) and the proxied row    *)
(* object (CodaTable) with its dirty tracking and lazy relation reads.     *)
(*                                                                         *)
(* Two row classes are modelled, T1 and T2, each declared as               *)
(*     id: string;                                                         *)
(*     @ColumnId(..) name: string;                                         *)
(*     @ColumnId(..) @References(() => Other) rel: CodaRelation<Other>;    *)
(*     @ColumnId(..) @References(() => Other) @Multiple                    *)
(*                   rels: CodaRelation<Other[]>;                          *)
(* with the relations of T1 referencing T2 and those of T2 referencing T1  *)
(* (the shape of the classes in test/CodaMapper.test.ts).  A row object is *)
(* an instance number; reference equality of objects is equality of        *)
(* instance numbers; 0 stands for undefined / null.                        *)
(***************************************************************************)
EXTENDS Integers, Sequences, FiniteSets, Bags, TLC

\* ------------------------------------------------------------------ bounds
MaxInst == 4       \* row objects alive at once
MaxPerKey == 2     \* row objects the mapper constructs for one key
MaxNew == 2        \* row objects the caller constructs
MaxPending == 2    \* requests in flight
MaxPolls == 7      \* status polls of one waitForMutation
MaxPages == 2      \* pages of one find or all

\* ------------------------------------------------------------ static data
Tables == {"T1", "T2"}
RowIds == {"r1", "r2"}
Names == {"a", "b"}
Undef == "undef"
NoKey == <<"none", "none">>
Keys == Tables \X RowIds

\* Names of the row objects.  The g-th object the mapper constructs for key
\* k is number KeyNo(k) + NumKeys * (g - 1); the objects the caller
\* constructs with `new` follow.
NumKeys == Cardinality(Keys)
KeyNo(key) == (IF key[1] = "T1" THEN 0 ELSE 2) + (IF key[2] = "r1" THEN 1 ELSE 2)
KeySlots(key) == {KeyNo(key) + NumKeys * g : g \in 0..(MaxPerKey - 1)}
NewSlots == (NumKeys * MaxPerKey + 1)..(NumKeys * MaxPerKey + MaxNew)
Inst == 1..(NumKeys * MaxPerKey + MaxNew)

\* @References(() => Other): the declared relation class of the fields rel
\* and rels
RelClass(cls) == IF cls = "T1" THEN "T2" ELSE "T1"

\* getTableId(table): @TableId of the class; the class name stands for it
getTableId(cls) == cls

\* Rows the remote document holds before the program starts.
InitRemote == {<<"T1", "r1">>, <<"T1", "r2">>, <<"T2", "r1">>}

VARIABLES
    inst,        \* instance number -> row object (cls = "none": not yet constructed)
    cache,       \* CodaMapper.cache: key -> instance number, 0 = no entry
    reqs,        \* requests in flight: slot -> request record
    remoteRows,  \* keys of the rows existing in the remote document
    ev,          \* what the last step did and returned (an observation, not program state)
    returned,    \* key -> the fetches of that key completed since the last clear:
                 \* <<the instance returned, whether it was a get or a refresh of
                 \* the row the cache held for the key>>
    wait         \* the call of waitForMutation in progress: its position, its
                 \* locals completed and failCounter, the answers its polls got,
                 \* and turn, the parity of the polls of a wait of any length

vars == <<inst, cache, reqs, remoteRows, ev, returned, wait>>

\* No call of waitForMutation was made.
NoWait == [pc |-> "none", completed |-> FALSE, failCounter |-> 0, answers |-> <<>>,
           err |-> "none", turn |-> 0]

\* ---------------------------------------------------------------- CodaTable

\* The value of the multiple relation field rels: undefined, or an array of
\* row objects (their numbers, in order).
NoArr == [isArray |-> FALSE, items |-> <<>>]
Arr(items) == [isArray |-> TRUE, items |-> items]

\* _original = {} : no own keys
EmptyOriginal == [has |-> FALSE, id |-> Undef, name |-> Undef, rel |-> 0, rels |-> NoArr]

\* class fields after construction: every declared field is an own property
\* holding undefined; _original = {}, _isDirty = false, _state all false
NewRow(cls) ==
    [cls |-> cls,
     vals |-> [id |-> Undef, name |-> Undef, rel |-> 0, rels |-> NoArr],
     orig |-> EmptyOriginal,
     isDirty |-> FALSE,
     existsOnCoda |-> FALSE,
     isFetched |-> FALSE,
     mapper |-> FALSE]

NoRow == NewRow("none")

Fields == {"id", "name", "rel", "rels"}

\* undefined, as field f holds it
UndefOf(f) == IF f = "rel" THEN 0 ELSE IF f = "rels" THEN NoArr ELSE Undef

\* The comparison of a value with the snapshot's, as the set trap and
\* getDirtyValues make it: an array is compared element by element over its
\* own length with (original ?? []), anything else by !==.  _resetDirty
\* copies the values shallowly, so an array in the snapshot is the array
\* object the field held.
Differs(f, v, o) ==
    IF f = "rels" /\ v.isArray
    THEN \E n \in 1..Len(v.items) : n > Len(o.items) \/ v.items[n] # o.items[n]
    ELSE v # o

\* getValues() called on the proxy: every public own key with its stored value
getValues(e) == e.vals

\* getDirtyValues() called on the proxy, as the set of keys it holds
getDirtyValues(e) ==
    {f \in Fields : \/ ~e.orig.has
                    \/ Differs(f, getValues(e)[f], e.orig[f])}

\* The set trap calls this.getDirtyValues() with `this` the raw target, not
\* the proxy: there this[`_direct_${key}`] is an absent property, so every
\* value compares as undefined against _original.
RawDirtyKeys(e) ==
    {f \in Fields : \/ ~e.orig.has
                    \/ UndefOf(f) # e.orig[f]}

isDirty(e) == e.isDirty

\* _getState()
IsPlaceholder(e) == e.existsOnCoda /\ ~e.isFetched

\* _resetDirty(): _original = { ...this.getValues() }; _isDirty = false
ResetDirty(e) ==
    [e EXCEPT !.orig = [has |-> TRUE, id |-> getValues(e).id,
                        name |-> getValues(e).name, rel |-> getValues(e).rel,
                        rels |-> getValues(e).rels],
              !.isDirty = FALSE]

\* The set trap's relation check: a truthy value must be instanceof the
\* declared relation class.  relCls is the class of the assigned object.
RelationAccepts(e, f, v, relCls) ==
    f = "rel" /\ v # 0 => relCls = RelClass(e.cls)

\* A set trap that marks the row dirty on every write.
SetFieldAlwaysDirty(e, f, v) ==
    [e EXCEPT !.vals[f] = v, !.isDirty = TRUE]

\* A set trap that compares with the snapshot's value without asking
\* whether the snapshot has the key.
SetFieldNoHasOwn(e, f, v) ==
    [e EXCEPT !.vals[f] = v, !.isDirty = Differs(f, v, e.orig[f])]

\* The set trap for a public (non-underscore) scalar or single-relation
\* property, after the relation check passed.
SetField(e, f, v) ==
    LET dirty0 == IF ~e.orig.has THEN TRUE ELSE Differs(f, v, e.orig[f])
        e1 == [e EXCEPT !.vals[f] = v]
        dirty == IF RawDirtyKeys(e1) = {} THEN FALSE ELSE dirty0
    IN [e1 EXCEPT !.isDirty = dirty]


\* _assign(mapper, state, values): attach the mapper, merge the state flags,
\* write every key of `values` through the set trap in key order, then
\* _resetDirty().  `state` and `values` are records holding only the keys
\* the caller passes; `order` is Object.keys(values).
RECURSIVE WriteAll(_, _, _)
WriteAll(e, order, values) ==
    IF order = <<>> THEN e
    ELSE WriteAll(SetField(e, Head(order), values[Head(order)]), Tail(order), values)

\* this._state = { ...this._state, ...state }
MergeState(e, state) ==
    [e EXCEPT !.existsOnCoda = IF "existsOnCoda" \in DOMAIN state
                               THEN state.existsOnCoda ELSE @,
              !.isFetched = IF "isFetched" \in DOMAIN state
                            THEN state.isFetched ELSE @]

\* An _assign that leaves the snapshot as it was.
AssignNoReset(e, state, order, values) ==
    WriteAll(MergeState([e EXCEPT !.mapper = TRUE], state), order, values)

Assign(e, state, order, values) ==
    ResetDirty(WriteAll(MergeState([e EXCEPT !.mapper = TRUE], state), order, values))

\* --------------------------------------------------------------- CodaMapper

\* A cache that stores nothing.
CacheSetNothing(C, key, i) == C

\* this.cache.set(`${tableId}:${rowId}`, row) for a row object constructed
\* on a cache miss
CacheSet(C, key, i) == [C EXCEPT ![key] = i]

\* The row objects constructed so far, and the number `new` yields next
\* for a key (0: the key's numbers are used up).
Used(I) == {i \in Inst : I[i].cls # "none"}
FreeOf(I, slots) == {i \in slots : I[i].cls = "none"}
SlotFor(I, slots) ==
    IF FreeOf(I, slots) = {} THEN 0
    ELSE CHOOSE i \in FreeOf(I, slots) : \A j \in FreeOf(I, slots) : i <= j

\* A decodeRichValue that marks the row it finds as a reference only.
decodeRichValueDowngrade(I, C, cls, cell) ==
    LET slot == IF C[cell] # 0 THEN C[cell] ELSE SlotFor(I, KeySlots(cell))
        table == Assign(IF C[cell] # 0 THEN I[slot] ELSE NewRow(RelClass(cls)),
                        [existsOnCoda |-> TRUE, isFetched |-> FALSE],
                        <<"id">>, [id |-> cell[2]])
    IN [inst |-> [I EXCEPT ![slot] = table],
        cache |-> CacheSet(C, cell, slot),
        val |-> slot]

\* A decodeRichValue that does not look the row up.
decodeRichValueNoLookup(I, C, cls, cell) ==
    LET slot == SlotFor(I, KeySlots(cell))
        table == Assign(NewRow(RelClass(cls)), [existsOnCoda |-> TRUE],
                        <<"id">>, [id |-> cell[2]])
    IN [inst |-> IF slot = 0 THEN I ELSE [I EXCEPT ![slot] = table],
        cache |-> IF C[cell] # 0 \/ slot = 0 THEN C ELSE CacheSet(C, cell, slot),
        val |-> slot]

\* A decodeRichValue whose new row counts as fetched.
decodeRichValueFetched(I, C, cls, cell) ==
    IF C[cell] # 0
    THEN [inst |-> I, cache |-> C, val |-> C[cell]]
    ELSE LET slot == SlotFor(I, KeySlots(cell))
             table == Assign(NewRow(RelClass(cls)),
                             [existsOnCoda |-> TRUE, isFetched |-> TRUE],
                             <<"id">>, [id |-> cell[2]])
         IN [inst |-> [I EXCEPT ![slot] = table],
             cache |-> CacheSet(C, cell, slot),
             val |-> slot]

\* decodeRichValue for a cell of a relation field holding a StructuredValue
\* row reference `cell` = <<tableId, rowId>>.
decodeRichValue(I, C, cls, cell) ==
    IF C[cell] # 0
    THEN [inst |-> I, cache |-> C, val |-> C[cell]]
    ELSE LET slot == SlotFor(I, KeySlots(cell))
             table == Assign(NewRow(RelClass(cls)), [existsOnCoda |-> TRUE],
                             <<"id">>, [id |-> cell[2]])
         IN [inst |-> [I EXCEPT ![slot] = table],
             cache |-> CacheSet(C, cell, slot),
             val |-> slot]

\* An _assign of parsed values that does not mark the row fetched.
AssignParsedUnfetched(e, parsedValues) ==
    Assign(e, [existsOnCoda |-> TRUE], <<"name", "rel", "rels", "id">>, parsedValues)

\* An _assign of parsed values that leaves a fetched row as it is.
AssignParsedFirstWins(e, parsedValues) ==
    IF e.isFetched THEN e
    ELSE Assign(e, [existsOnCoda |-> TRUE, isFetched |-> TRUE],
                <<"name", "rel", "rels", "id">>, parsedValues)

\* An _assign of parsed values whose state names isFetched only.
AssignParsedFetchedOnly(e, parsedValues) ==
    Assign(e, [isFetched |-> TRUE], <<"name", "rel", "rels", "id">>, parsedValues)

\* parseDtoRow's row._assign(this, { existsOnCoda: true, isFetched: true },
\* parsedValues, dtoRow); parsedValues holds the column properties in
\* declaration order, then id.
AssignParsed(e, parsedValues) ==
    Assign(e, [existsOnCoda |-> TRUE, isFetched |-> TRUE],
           <<"name", "rel", "rels", "id">>, parsedValues)

\* The cell of the multiple relation column rels in a row response:
\*   "absent": dto.values has no such column;  "empty": the string '';
\*   "one": a single StructuredValue;  "list": an array of StructuredValues.
\* keys are the <<tableId, rowId>> of the StructuredValues, in order.
NoCell == [kind |-> "absent", keys |-> <<>>]
CellKeys(cell) == {cell.keys[n] : n \in 1..Len(cell.keys)}

\* A row response: dto.id, the name cell, the rel cell (NoKey: the cell
\* is absent from dto.values, which parses to undefined without decoding)
\* and the rels cell.
\* The keys this parse has to construct a row object for (beyond a
\* discarded `new table()`), and whether the bounds leave room for them.
ParseNeeds(C, cls, dto) ==
    {k \in {<<getTableId(cls), dto.id>>, dto.rel} \cup CellKeys(dto.rels) :
        k # NoKey /\ C[k] = 0}

CanParse(I, C, cls, dto) ==
    /\ \A k \in ParseNeeds(C, cls, dto) : FreeOf(I, KeySlots(k)) # {}
    /\ Cardinality(Used(I)) + Cardinality(ParseNeeds(C, cls, dto)) <= MaxInst

\* value.map((v) => this.decodeRichValue(v, relation, false, ...)) over the
\* StructuredValues `keys` of an array cell, in order, appended to the
\* elements decoded so far (done.val); each decode sees the instances and
\* the cache the one before it left (done.inst, done.cache).
decodeNext(done, d) ==
    [inst |-> d.inst, cache |-> d.cache, val |-> Append(done.val, d.val)]

RECURSIVE decodeArray(_, _, _)
decodeArray(done, cls, keys) ==
    IF keys = <<>> THEN done
    ELSE decodeArray(decodeNext(done, decodeRichValue(done.inst, done.cache, cls,
                                                      Head(keys))),
                     cls, Tail(keys))

\* decodeRichValue for the cell of a multiple relation field: '' gives [],
\* a single StructuredValue a one-element array, an array its decoded
\* elements; an absent cell is not decoded and parses to undefined.
decodeMultiple(I, C, cls, cell) ==
    [decodeArray([inst |-> I, cache |-> C, val |-> <<>>], cls, cell.keys)
        EXCEPT !.val = IF cell.kind = "absent" THEN NoArr ELSE Arr(@)]

\* parseDtoRow's loop over the columns, in declaration order: the
\* instances and cache the decodes leave, and parsedValues (with id).
parsedValues(I, C, cls, dto) ==
    LET dec1 == IF dto.rel = NoKey
                THEN [inst |-> I, cache |-> C, val |-> 0]
                ELSE decodeRichValue(I, C, cls, dto.rel)
        dec == decodeMultiple(dec1.inst, dec1.cache, cls, dto.rels)
    IN [inst |-> dec.inst, cache |-> dec.cache,
        vals |-> [name |-> dto.name, rel |-> dec1.val, rels |-> dec.val,
                  id |-> dto.id]]

\* A parseDtoRow that, on a cache miss, takes up a row object the mapper
\* made for the key before.
assignParsedRowReuse(I, parsed, cls, dto) ==
    LET key == <<getTableId(cls), dto.id>>
        old == {i \in KeySlots(key) : I[i].cls = cls /\ I[i].vals.id = dto.id}
        rowSlot == IF old # {} THEN CHOOSE i \in old : TRUE
                   ELSE SlotFor(I, KeySlots(key))
        cachedRow == parsed.cache[key]
        target == IF cachedRow # 0 THEN cachedRow ELSE rowSlot
        before == IF cachedRow # 0 THEN parsed.inst[cachedRow]
                  ELSE IF old # {} THEN parsed.inst[rowSlot] ELSE NewRow(cls)
        after == AssignParsed(before, parsed.vals)
    IN [inst |-> [parsed.inst EXCEPT ![target] = after],
        cache |-> IF cachedRow # 0 THEN parsed.cache
                  ELSE CacheSet(parsed.cache, key, target),
        res |-> target]

\* parseDtoRow after the loop: the cache lookup, then _assign on the cached
\* row or on the new row, which is then cached.
assignParsedRow(I, parsed, cls, dto) ==
    LET key == <<getTableId(cls), dto.id>>
        \* const row = new table(): it takes an instance number only when it
        \* is kept (no cache entry); otherwise it is garbage at once
        rowSlot == SlotFor(I, KeySlots(key))
        cachedRow == parsed.cache[key]
        target == IF cachedRow # 0 THEN cachedRow ELSE rowSlot
        before == IF cachedRow # 0 THEN parsed.inst[cachedRow] ELSE NewRow(cls)
        after == AssignParsed(before, parsed.vals)
    IN [inst |-> [parsed.inst EXCEPT ![target] = after],
        cache |-> IF cachedRow # 0 THEN parsed.cache
                  ELSE CacheSet(parsed.cache, key, target),
        res |-> target]

\* parseDtoRow(table, dtoRow): returns the new inst, cache and the row object
\* it returns.
parseDtoRow(I, C, cls, dto) ==
    assignParsedRow(I, parsedValues(I, C, cls, dto), cls, dto)


\* ------------------------------------------------------------ string cells

\* Strings are sequences of characters; the characters that matter to
\* decodeRichValue are the backtick and the backslash.
Backtick == "bt"
Backslash == "bs"
Fence == <<Backtick, Backtick, Backtick>>

\* The values a cell decodes to, and the cell of a column the response does
\* not hold.
Undefined == [type |-> "undefined"]
Str(chars) == [type |-> "string", chars |-> chars]
List(items) == [type |-> "array", items |-> items]
Absent == [type |-> "absent"]

\* String.prototype.substring(start, end), for 0 <= start, end <= length:
\* the arguments are swapped when start > end
substring(chars, start, end) ==
    IF start <= end THEN SubSeq(chars, start + 1, end)
    ELSE SubSeq(chars, end + 1, start)

startsWith(chars, prefix) ==
    Len(chars) >= Len(prefix) /\ SubSeq(chars, 1, Len(prefix)) = prefix
endsWith(chars, suffix) ==
    /\ Len(chars) >= Len(suffix)
    /\ SubSeq(chars, Len(chars) - Len(suffix) + 1, Len(chars)) = suffix

\* value.replace(/\\`/g, '`'): every backslash followed by a backtick goes
RECURSIVE unescape(_)
unescape(chars) ==
    IF Len(chars) < 2 THEN chars
    ELSE IF chars[1] = Backslash /\ chars[2] = Backtick
         THEN <<Backtick>> \o unescape(SubSeq(chars, 3, Len(chars)))
         ELSE <<chars[1]>> \o unescape(Tail(chars))

\* decodeRichValue(value, relation, multiple) for typeof value === 'string':
\* relation is not looked at.
decodeString(chars, relation, multiple) ==
    IF multiple /\ chars = <<>> THEN List(<<>>)
    ELSE Str(unescape(IF startsWith(chars, Fence) /\ endsWith(chars, Fence)
                      THEN substring(chars, 3, Len(chars) - 3) ELSE chars))

\* parseDtoRow's parsedValue for a column whose cell is a string or absent
parseCell(cell, relation, multiple) ==
    IF cell = Absent THEN Undefined
    ELSE decodeString(cell.chars, relation, multiple)

\* The class of the test 'should correctly parse all string responses':
\* a plain column, a @Multiple column, a @References column and a
\* @References @Multiple column.
Columns == {"emptyString", "emptyArray", "emptyRelation", "emptyRelationArray"}
getRelation(prop) == prop \in {"emptyRelation", "emptyRelationArray"}
getMultiple(prop) == prop \in {"emptyArray", "emptyRelationArray"}

\* The string cells of the responses: '', 'a', '```a```' and '\\`'
StringCells ==
    {Absent, Str(<<>>), Str(<<"a">>), Str(Fence \o <<"a">> \o Fence),
     Str(<<Backslash, Backtick>>)}

\* --------------------------------------------------------------- rich cells

\* The other wire values of a cell (CodaRowValue) and the values they decode
\* to: numbers, booleans, StructuredValue row references, the rich objects
\* MonetaryAmount / WebPage / ImageObject / Person with the scalar they
\* carry (amount, url, url, email), objects of any other @type, and row
\* objects.
Num(n) == [type |-> "number", n |-> n]
Bool(b) == [type |-> "boolean", b |-> b]
Ref(key) == [type |-> "StructuredValue", key |-> key]
Rich(type, scalar) == [type |-> type, scalar |-> scalar]
Other(type) == [type |-> type]
Row(i) == [type |-> "row", i |-> i]
RichTypes == {"MonetaryAmount", "WebPage", "ImageObject", "Person"}

\* What a decode leaves: the row objects, the cache, the value returned,
\* or err when enforce threw.
Returned(I, C, val) == [inst |-> I, cache |-> C, val |-> val, err |-> FALSE]
Thrown(I, C) == [inst |-> I, cache |-> C, val |-> Undefined, err |-> TRUE]
ReturnedRow(d) == Returned(d.inst, d.cache, Row(d.val))

\* A structured-value branch that asks for the declared relation first.
decodeStructuredEnforceFirst(I, C, cls, key, relation) ==
    IF ~relation THEN Thrown(I, C)
    ELSE ReturnedRow(decodeRichValue(I, C, cls, key))

\* decodeRichValue's branch for value['@type'] === 'StructuredValue': the
\* cache lookup, then enforce(relation, ...) and the new row.
decodeStructured(I, C, cls, key, relation) ==
    IF C[key] = 0 /\ ~relation THEN Thrown(I, C)
    ELSE ReturnedRow(decodeRichValue(I, C, cls, key))

\* [decodeRichValue(value, relation, false, ...)]
Wrap(d) == IF d.err THEN d ELSE [d EXCEPT !.val = List(<<@>>)]

\* one step of value.map(...): the decoded element joins the result; a
\* throw ends the map
MapNext(done, d) ==
    IF d.err THEN Thrown(d.inst, d.cache)
    ELSE Returned(d.inst, d.cache, List(Append(done.val.items, d.val)))

\* decodeRichValue(value, relation, multiple, className, keyName) of the
\* column of a row of class cls, over every wire value; relation: the
\* column is declared @References (of RelClass(cls)).
RECURSIVE decodeRich(_, _, _, _, _, _)
RECURSIVE decodeMap(_, _, _, _)
decodeRich(I, C, cls, value, relation, multiple) ==
    IF value.type = "string"
    THEN Returned(I, C, decodeString(value.chars, relation, multiple))
    ELSE IF value.type = "array"
    THEN decodeMap(Returned(I, C, List(<<>>)), cls, value.items, relation)
    ELSE IF multiple
    THEN Wrap(decodeRich(I, C, cls, value, relation, FALSE))
    ELSE IF value.type = "StructuredValue"
    THEN decodeStructured(I, C, cls, value.key, relation)
    ELSE IF value.type \in RichTypes THEN Returned(I, C, value.scalar)
    ELSE Returned(I, C, value)

\* value.map((v) => this.decodeRichValue(v, relation, false, ...))
decodeMap(done, cls, items, relation) ==
    IF items = <<>> \/ done.err THEN done
    ELSE decodeMap(MapNext(done, decodeRich(done.inst, done.cache, cls,
                                            Head(items), relation, FALSE)),
                   cls, Tail(items), relation)

\* The wire values of the cells decoded: scalars, and arrays of up to two
\* of the elements.
Scalars ==
    {Str(<<>>), Str(<<"a">>), Num(1), Bool(TRUE),
     Ref(<<"T2", "r1">>), Ref(<<"T2", "r2">>),
     Rich("MonetaryAmount", Num(5)), Rich("WebPage", Str(<<"u">>)),
     Rich("ImageObject", Str(<<"u">>)), Rich("Person", Str(<<"e">>)),
     Other("Thing")}
Elements == {Str(<<"a">>), Num(1), Ref(<<"T2", "r1">>), Ref(<<"T2", "r2">>)}
WireValues ==
    Scalars \cup {List(<<>>)} \cup {List(<<x>>) : x \in Elements}
            \cup {List(<<x, y>>) : x \in Elements, y \in Elements}

\* The keys of the row references in a wire value
RefKeys(value) ==
    IF value.type = "StructuredValue" THEN {value.key}
    ELSE IF value.type = "array"
    THEN {value.items[n].key :
            n \in {m \in 1..Len(value.items) : value.items[m].type = "StructuredValue"}}
    ELSE {}

\* The bounds leave room for the row objects the decode constructs.
CanDecode(I, C, value) ==
    /\ \A k \in RefKeys(value) : C[k] = 0 => FreeOf(I, KeySlots(k)) # {}
    /\ Cardinality(Used(I)) + Cardinality({k \in RefKeys(value) : C[k] = 0}) <= MaxInst

\* A mapper just constructed, before it decodes any cell.
InitDecode ==
    /\ inst = [i \in Inst |-> NoRow]
    /\ cache = [k \in Keys |-> 0]
    /\ reqs = EmptyBag
    /\ remoteRows = {}
    /\ returned = [k \in Keys |-> {}]
    /\ wait = NoWait
    /\ ev = [op |-> "none", value |-> Undefined, relation |-> FALSE,
             multiple |-> FALSE, val |-> Undefined, err |-> FALSE]

\* parseDtoRow decodes the cell `value` of a column of a row of class T1.
DecodeCell(value, relation, multiple) ==
    /\ CanDecode(inst, cache, value)
    /\ \E d \in {decodeRich(inst, cache, "T1", value, relation, multiple)} :
         /\ inst' = d.inst
         /\ cache' = d.cache
         /\ ev' = [op |-> "decoded", value |-> value, relation |-> relation,
                   multiple |-> multiple, val |-> d.val, err |-> d.err]
    /\ UNCHANGED <<reqs, remoteRows, returned, wait>>

NextDecode ==
    \E value \in WireValues, relation \in BOOLEAN, multiple \in BOOLEAN :
        DecodeCell(value, relation, multiple)

\* ------------------------------------------------------- requests, events

NoDto == [id |-> Undef, name |-> Undef, rel |-> NoKey, rels |-> NoCell]

\* A request in flight.
\*   kind "get": GET rows/{id} sent by get (row = 0) or by refresh(row);
\*     holder # 0 when the refresh was started by reading holder.rel;
\*     twin: another read of the same placeholder was in flight with it
\*     join # 0 when the refresh is one of those a read of join.rels
\*     started and its Promise.all is still pending; arr is the array
\*     that read went through
\*   kind "rows": GET rows sent by find or all (first = FALSE) or by first;
\*     page counts the pages received, dtos are their rows and items the
\*     row objects parseDtoRow returned for them
\*   kind "insert": POST rows sent by insert(rows);
\*     twin: another insert of one of its rows was in flight with it
\*   kind "update": PUT rows/{id} sent by update(row)
\*   kind "batch": POST rows with keyColumns sent by updateBatch(rows)
\*   kind "delete": DELETE rows sent by delete(rows), ids = the rowIds of
\*     its body
NoReq == [kind |-> "none", key |-> NoKey, row |-> 0, holder |-> 0, twin |-> FALSE,
          rows |-> <<>>, ids |-> <<>>, join |-> 0, arr |-> <<>>,
          first |-> FALSE, page |-> 0, items |-> <<>>, dtos |-> <<>>]

\* The requests a new request is a twin of: the reads of placeholder `item`
\* (item # 0), or the inserts of one of `rows`.
IsTwinOf(q, item, rows) ==
    \/ item # 0 /\ q.kind = "get" /\ q.row = item /\ q.holder # 0
    \/ q.kind = "insert" /\ \E m \in 1..Len(q.rows), n \in 1..Len(rows) : q.rows[m] = rows[n]

\* requests B with those marked as twins
MarkTwins(B, item, rows) ==
    LET S == {IF IsTwinOf(q, item, rows) THEN [q EXCEPT !.twin = TRUE] ELSE q :
                q \in BagToSet(B)}
    IN [t \in S |-> IF IsTwinOf(t, item, rows)
                    THEN CopiesIn([t EXCEPT !.twin = FALSE], B) + CopiesIn(t, B)
                    ELSE B[t]]

Pending == BagToSet(reqs)
CanSend == BagCardinality(reqs) < MaxPending
Send(req) == reqs (+) SetToBag({req})
Take(req) == reqs (-) SetToBag({req})

\* A Promise.all that settles with the first promise that settles.
PromiseAllRace(B, req, ok) ==
    IF req.join = 0 THEN "none"
    ELSE IF ok THEN "resolved" ELSE "rejected"

\* Promise.all(relationArray), when the refresh of request req settles (ok:
\* it resolves) among the requests B in flight: the joined promise rejects
\* with the first refresh that rejects, resolves with the last one that
\* resolves, and is pending otherwise.
PromiseAll(B, req, ok) ==
    IF req.join = 0 THEN "none"
    ELSE IF ~ok THEN "rejected"
    ELSE IF \A q \in BagToSet(B) : q.join = req.join => q = req /\ B[q] = 1
         THEN "resolved" ELSE "pending"

\* The requests in flight once req is answered: a refresh that rejects
\* settles its Promise.all, whose other refreshes go on with nobody
\* awaiting them.
Settle(req, ok) ==
    LET B == Take(req)
        j == req.join
        S == {IF q.join = j THEN [q EXCEPT !.join = 0] ELSE q : q \in BagToSet(B)}
    IN IF j = 0 \/ ok THEN B
       ELSE [t \in S |-> IF t.join = 0
                         THEN CopiesIn(t, B) + CopiesIn([t EXCEPT !.join = j], B)
                         ELSE B[t]]

\* The value of a cell in the body of a request: kind "id" for a row
\* object, ids holding its id (Undef: the row object has none); kind
\* "array" for an array, ids holding the encoded elements, "scalar" for
\* an element that is no row object; kind "scalar" for any other value,
\* which is sent as it is; NotSent for a field the body has no cell for.
NotSent == [kind |-> "none", ids |-> <<>>]
Scalar == [kind |-> "scalar", ids |-> <<>>]

\* encodeValue(column) for column instanceof CodaTable: column.id
encodeRow(I, c) == IF c \in Inst THEN I[c].vals.id ELSE "scalar"

\* encodeValue(column) for the value `column` of field f
encodeValue(I, f, column) ==
    IF f = "rel"
    THEN IF column \in Inst THEN [kind |-> "id", ids |-> <<encodeRow(I, column)>>]
         ELSE Scalar
    ELSE IF f = "rels" /\ column.isArray
    THEN [kind |-> "array",
          ids |-> [n \in 1..Len(column.items) |-> encodeRow(I, column.items[n])]]
    ELSE Scalar

\* parseCodaRow's cells: value: this.encodeValue(value) for each sent key
encodeCells(I, e, keys) ==
    [f \in Fields |-> IF f \in keys THEN encodeValue(I, f, e.vals[f]) ELSE NotSent]

\* The last step, as its caller observes it.
\*   op      "call": a request was sent or an object constructed;
\*           "write": a field was written; "reset": _resetDirty() was called;
\*           "done": a fetch completed; "inserted": an insert completed;
\*           "listed": a find, all or first completed;
\*           "read": getValues(), getDirtyValues() or isDirty() returned
\*   out     "ok" / "null" / "error"
\*   key     the key a fetch asked for
\*   row     the row object passed to refresh (0: a plain get)
\*   holder  the row object whose relation field was read (0: none)
\*   twin    the request's twin mark
\*   res     the value the caller receives (an instance number, 0: null)
\*   parsed  what parseDtoRow returned
\*   dto     the row response parsed
\*   hit     the cache entry of `key` when the response arrived (0: none)
\*   rows    the rows of an insert, ids the ids the response assigned
\*   again   a fetch of `key` had completed before, since the last clear
\*   field   the field a write wrote; the method a "read" called
\*   cells   the fields whose cells update(row) put in its request
\*   msg     the error of a rejected write: <<expected class, actual class>>
\*   read    a read of row.rels: "sync" it returned the array, "pending" it
\*           returned a Promise.all or one of its refreshes resolved,
\*           "resolved" / "rejected" the Promise.all settled
\*   arr     the array a read of row.rels returned or resolved with
\*   sent    the values of the cells update(row) put in its request
\*   items   the row objects find, all or first returned ("listed"), dtos
\*           the response rows they were parsed from, in the same order
\*   edited  before a write: the field differed from the snapshot;
\*           before a fetch completed: the cached row had unsaved edits
NoEv == [op |-> "call", out |-> "none", key |-> NoKey, row |-> 0, holder |-> 0,
         twin |-> FALSE, res |-> 0, parsed |-> 0, dto |-> NoDto, hit |-> 0,
         again |-> FALSE, rows |-> <<>>, ids |-> <<>>, field |-> "none",
         edited |-> FALSE, cells |-> {}, msg |-> <<>>, read |-> "none",
         arr |-> <<>>, sent |-> [f \in Fields |-> NotSent],
         items |-> <<>>, dtos |-> <<>>]

\* ------------------------------------------------------------------- Init

InitWith(rows) ==
    /\ inst = [i \in Inst |-> NoRow]
    /\ cache = [k \in Keys |-> 0]
    /\ reqs = EmptyBag
    /\ remoteRows = rows
    /\ ev = NoEv
    /\ returned = [k \in Keys |-> {}]
    /\ wait = NoWait

\* A mapper just constructed, on a document that holds rows
Init == InitWith(InitRemote)

\* A mapper just constructed, on a document without rows
InitEmptyDoc == InitWith({})

\* A row response with string cells has arrived and is about to be parsed.
InitCells ==
    /\ inst = [i \in Inst |-> NoRow]
    /\ cache = [k \in Keys |-> 0]
    /\ reqs = EmptyBag
    /\ remoteRows = {}
    /\ returned = [k \in Keys |-> {}]
    /\ wait = NoWait
    /\ \E cells \in [Columns -> StringCells] :
         ev = [op |-> "response", cells |-> cells,
               values |-> [prop \in Columns |-> Undefined]]

\* parseDtoRow's loop over the columns of the response
ParseCells ==
    /\ ev.op = "response"
    /\ ev' = [ev EXCEPT !.op = "parsed",
                        !.values = [prop \in Columns |->
                                      parseCell(ev.cells[prop], getRelation(prop),
                                                getMultiple(prop))]]
    /\ UNCHANGED <<inst, cache, reqs, remoteRows, returned, wait>>

\* A mapper just constructed, on a document that holds one row of each table
InitTwoRows == InitWith({<<"T1", "r1">>, <<"T2", "r1">>})

\* ---------------------------------------------------------- caller actions

\* new T(): the caller constructs a row object
New(cls) ==
    /\ FreeOf(inst, NewSlots) # {}
    /\ Cardinality(Used(inst)) < MaxInst
    /\ inst' = [inst EXCEPT ![SlotFor(inst, NewSlots)] = NewRow(cls)]
    /\ ev' = NoEv
    /\ UNCHANGED <<cache, reqs, remoteRows, returned, wait>>

\* row.name = v
WriteName(i, v) ==
    /\ i \in Used(inst)
    /\ inst' = [inst EXCEPT ![i] = SetField(@, "name", v)]
    /\ ev' = [NoEv EXCEPT !.op = "write", !.row = i, !.field = "name",
                          !.edited = ("name" \in getDirtyValues(inst[i]))]
    /\ UNCHANGED <<cache, reqs, remoteRows, returned, wait>>

\* row.rel = other (0: undefined); the set trap throws before it stores a
\* value that is not an instance of the declared relation class
WriteRel(i, j) ==
    /\ i \in Used(inst)
    /\ j \in Used(inst) \cup {0}
    /\ RelationAccepts(inst[i], "rel", j, IF j = 0 THEN "none" ELSE inst[j].cls)
    /\ inst' = [inst EXCEPT ![i] = SetField(@, "rel", j)]
    /\ ev' = [NoEv EXCEPT !.op = "write", !.row = i, !.field = "rel",
                          !.edited = ("rel" \in getDirtyValues(inst[i]))]
    /\ UNCHANGED <<cache, reqs, remoteRows, returned, wait>>

\* Values that are no row objects, as a caller can assign them to a
\* relation field: the string '' (falsy) and a string that is not empty.
EmptyString == 0 - 1
SomeString == 0 - 2

\* if (value): undefined and '' are falsy
Truthy(v) == v # 0 /\ v # EmptyString

\* value instanceof relation, and value.constructor.name
InstanceOf(I, v, cls) == v \in Inst /\ I[v].cls = cls
ConstructorName(I, v) == IF v \in Inst THEN I[v].cls ELSE "String"

\* The set trap's relation check: the value its enforce throws for (0: it
\* throws for none).  An array is checked element by element, in order;
\* any other value is checked if it is truthy.
FirstRejected(I, e, f, v) ==
    IF f = "rels"
    THEN LET bad == {n \in 1..Len(v.items) : ~InstanceOf(I, v.items[n], RelClass(e.cls))}
         IN IF bad = {} THEN 0 ELSE v.items[CHOOSE n \in bad : \A m \in bad : n <= m]
    ELSE IF Truthy(v) /\ ~InstanceOf(I, v, RelClass(e.cls)) THEN v ELSE 0

\* row[f] = v for a relation field f: the set trap throws
\* `Expected ${relation.name} but got ${item.constructor.name}` before it
\* stores anything, or stores the value and recomputes the dirty flag.
SetRelation(i, f, v) ==
    /\ i \in Used(inst)
    /\ LET bad == FirstRejected(inst, inst[i], f, v)
       IN IF bad # 0
          THEN /\ ev' = [NoEv EXCEPT !.op = "write", !.out = "error", !.row = i,
                                     !.field = f,
                                     !.msg = <<RelClass(inst[i].cls),
                                               ConstructorName(inst, bad)>>]
               /\ UNCHANGED inst
          ELSE /\ ev' = [NoEv EXCEPT !.op = "write", !.out = "ok", !.row = i,
                                     !.field = f,
                                     !.edited = (f \in getDirtyValues(inst[i]))]
               /\ inst' = [inst EXCEPT ![i] = SetField(@, f, v)]
    /\ UNCHANGED <<cache, reqs, remoteRows, returned, wait>>

\* The values a caller assigns to row.rel: undefined, a row object, a string
RelValues == Used(inst) \cup {0, EmptyString, SomeString}

\* The values a caller assigns to row.rels: undefined, or an array of up to
\* two row objects or strings
RelsValues ==
    {NoArr, Arr(<<>>)}
    \cup {Arr(<<a>>) : a \in Used(inst) \cup {SomeString}}
    \cup {Arr(<<a, b>>) : a \in Used(inst), b \in Used(inst) \cup {SomeString}}

\* row._resetDirty()
ResetDirtyCall(i) ==
    /\ i \in Used(inst)
    /\ inst' = [inst EXCEPT ![i] = ResetDirty(@)]
    /\ ev' = [NoEv EXCEPT !.op = "reset", !.row = i]
    /\ UNCHANGED <<cache, reqs, remoteRows, returned, wait>>

\* mapper.get(table, id): the GET is sent, the caller awaits the response
Get(cls, r) ==
    /\ CanSend
    /\ reqs' = Send([NoReq EXCEPT !.kind = "get", !.key = <<getTableId(cls), r>>])
    /\ ev' = NoEv
    /\ UNCHANGED <<inst, cache, remoteRows, returned, wait>>

\* CodaTable.refresh(): enforce(this.id && this._mapper).refresh(this);
\* CodaMapper.refresh(row): enforce(existsOnCoda && row.id), then get(...)
CanRefresh(e) ==
    /\ e.vals.id # Undef /\ e.mapper
    /\ e.existsOnCoda /\ e.vals.id # Undef

RefreshKey(e) == <<getTableId(e.cls), e.vals.id>>

\* row.refresh() / mapper.refresh(row) by the caller
Refresh(i) ==
    /\ i \in Used(inst)
    /\ CanRefresh(inst[i])
    /\ CanSend
    /\ reqs' = Send([NoReq EXCEPT !.kind = "get", !.key = RefreshKey(inst[i]), !.row = i])
    /\ ev' = NoEv
    /\ UNCHANGED <<inst, cache, remoteRows, returned, wait>>

\* A get trap that refreshes whatever row the field holds.
GetTrapRelAlwaysRefresh(I, i) ==
    LET item == I[i].vals.rel
    IN IF item = 0 THEN [out |-> "sync", res |-> 0]
       ELSE [out |-> "deferred", res |-> item]

\* The get trap for the relation property rel of row i, as what it returns:
\* out = "sync" with the stored value, or out = "deferred" (item.refresh()).
GetTrapRel(I, i) ==
    LET item == I[i].vals.rel
    IN IF item = 0 THEN [out |-> "sync", res |-> 0]
       ELSE IF IsPlaceholder(I[item]) THEN [out |-> "deferred", res |-> item]
       ELSE [out |-> "sync", res |-> item]

\* An item.refresh() that returns the promise of a refresh of the same row
\* that is in flight, if there is one.
RefreshRelShared(B, I, i) ==
    LET item == GetTrapRel(I, i).res
        twins == {q \in BagToSet(B) : IsTwinOf(q, item, <<>>)}
        req == [NoReq EXCEPT !.kind = "get", !.key = RefreshKey(I[item]),
                             !.row = item, !.holder = i]
    IN IF twins = {} THEN B (+) SetToBag({req}) ELSE B

\* item.refresh() of the trap for row.rel, as the requests in flight after
\* it, B being those before it: mapper.refresh(item) calls get(), which
\* sends its GET.
RefreshRel(B, I, i) ==
    LET item == GetTrapRel(I, i).res
        twins == {q \in BagToSet(B) : IsTwinOf(q, item, <<>>)}
        req == [NoReq EXCEPT !.kind = "get", !.key = RefreshKey(I[item]),
                             !.row = item, !.holder = i, !.twin = (twins # {})]
    IN IF twins = {} THEN B (+) SetToBag({req})
       ELSE MarkTwins(B, item, <<>>) (+) SetToBag({req})

\* Reading row.rel when the trap returns item.refresh(): the refresh sends
\* its GET at once.  (A read that returns synchronously changes nothing.)
ReadRel(i) ==
    /\ i \in Used(inst)
    /\ GetTrapRel(inst, i).out = "deferred"
    /\ CanRefresh(inst[GetTrapRel(inst, i).res])
    /\ CanSend
    /\ reqs' = RefreshRel(reqs, inst, i)
    /\ ev' = NoEv
    /\ UNCHANGED <<inst, cache, remoteRows, returned, wait>>

\* Reading row.rel, as the caller sees it: the stored value at once, or the
\* promise of item.refresh(), whose GET is sent during the read.
ReadField(i) ==
    /\ i \in Used(inst)
    /\ IF GetTrapRel(inst, i).out = "deferred"
       THEN /\ CanRefresh(inst[GetTrapRel(inst, i).res])
            /\ CanSend
            /\ reqs' = RefreshRel(reqs, inst, i)
            /\ ev' = [NoEv EXCEPT !.op = "read", !.row = i, !.field = "rel",
                                  !.read = "pending", !.res = inst[i].vals.rel]
       ELSE /\ UNCHANGED reqs
            /\ ev' = [NoEv EXCEPT !.op = "read", !.row = i, !.field = "rel",
                                  !.read = "sync", !.res = inst[i].vals.rel]
    /\ UNCHANGED <<inst, cache, remoteRows, returned, wait>>

\* The get trap for the relation property rels of row i: the indices of
\* the elements it calls refresh() on.  (It returns the stored value when
\* that is undefined or an empty array.)
GetTrapRels(I, i) ==
    {n \in 1..Len(I[i].vals.rels.items) : IsPlaceholder(I[I[i].vals.rels.items[n]])}

\* The refresh requests of a read of row.rels, one for each placeholder
\* element.
RefreshAll(I, i) ==
    LET items == I[i].vals.rels.items
        reqOf(n) == [NoReq EXCEPT !.kind = "get", !.key = RefreshKey(I[items[n]]),
                                  !.row = items[n], !.holder = i, !.join = i,
                                  !.arr = items]
        S == {reqOf(n) : n \in GetTrapRels(I, i)}
    IN [q \in S |-> Cardinality({n \in GetTrapRels(I, i) : reqOf(n) = q})]

\* Reading row.rels: with no placeholder among the elements the trap
\* returns the array; otherwise every placeholder's refresh sends its GET
\* at once and the trap returns Promise.all of elements and refreshes.
ReadRels(i) ==
    /\ i \in Used(inst)
    /\ inst[i].vals.rels.isArray
    /\ IF GetTrapRels(inst, i) = {}
       THEN /\ ev' = [NoEv EXCEPT !.op = "read", !.holder = i, !.read = "sync",
                                  !.arr = inst[i].vals.rels.items]
            /\ UNCHANGED reqs
       ELSE /\ \A n \in GetTrapRels(inst, i) :
                 CanRefresh(inst[inst[i].vals.rels.items[n]])
            /\ BagCardinality(reqs) + Cardinality(GetTrapRels(inst, i)) <= MaxPending
            /\ \A q \in Pending : q.join # i
            /\ reqs' = reqs (+) RefreshAll(inst, i)
            /\ ev' = [NoEv EXCEPT !.op = "read", !.holder = i, !.read = "pending",
                                  !.arr = inst[i].vals.rels.items]
    /\ UNCHANGED <<inst, cache, remoteRows, returned, wait>>

\* mapper._clearCache()
ClearCache ==
    /\ cache' = [k \in Keys |-> 0]
    /\ returned' = [k \in Keys |-> {}]
    /\ ev' = NoEv
    /\ UNCHANGED <<inst, reqs, remoteRows, wait>>

\* -------------------------------------------------------- the remote answers

\* Row responses the remote can give for `key`: the row's id, any name, and
\* a rel cell that is absent or references an existing row of the related
\* table.
RowResponses(key) ==
    {[id |-> key[2], name |-> n, rel |-> k, rels |-> NoCell] :
        n \in Names,
        k \in {NoKey} \cup {x \in remoteRows : key[1] = "T1" /\ x[1] = RelClass(key[1])}}

\* Row responses of a document whose row r1 of each table references row r1
\* of the other table.
CycleResponses(key) ==
    {[id |-> key[2], name |-> n, rel |-> <<RelClass(key[1]), "r1">>, rels |-> NoCell] :
        n \in Names}

\* get's response arrives with the row, one of dtos: parseDtoRow, then get
\* returns its result; refresh(row) ignores it and returns row.
RespondWith(req, dtos) ==
    /\ req \in Pending
    /\ req.kind = "get"
    /\ req.key \in remoteRows
    /\ \E dto \in dtos :
        LET cls == req.key[1]
            p == parseDtoRow(inst, cache, cls, dto)
            result == IF req.row # 0 THEN req.row ELSE p.res
        IN /\ CanParse(inst, cache, cls, dto)
           /\ inst' = p.inst
           /\ cache' = p.cache
           /\ returned' = [returned EXCEPT ![req.key] =
                               @ \cup {<<result, req.row = 0 \/ req.row = cache[req.key]>>}]
           /\ ev' = [NoEv EXCEPT !.op = "done", !.out = "ok", !.key = req.key,
                                 !.row = req.row, !.holder = req.holder,
                                 !.twin = req.twin,
                                 !.res = result, !.parsed = p.res, !.dto = dto,
                                 !.hit = cache[req.key],
                                 !.read = PromiseAll(reqs, req, TRUE),
                                 !.arr = req.arr,
                                 !.again = (returned[req.key] # {}),
                                 !.edited = (cache[req.key] # 0
                                             /\ getDirtyValues(inst[cache[req.key]]) # {})]
    /\ reqs' = Take(req)
    /\ UNCHANGED <<remoteRows, wait>>

RespondRow(req) == RespondWith(req, RowResponses(req.key))

RespondCycle(req) == RespondWith(req, CycleResponses(req.key))

\* Row responses of a document whose rows of T1 reference rows of T2 in
\* their multiple relation column: one row, two rows, one row twice, or
\* none.
ArrayCells ==
    {[kind |-> "empty", keys |-> <<>>],
     [kind |-> "one", keys |-> <<<<"T2", "r1">>>>],
     [kind |-> "list", keys |-> <<<<"T2", "r1">>>>],
     [kind |-> "list", keys |-> <<<<"T2", "r1">>, <<"T2", "r2">>>>],
     [kind |-> "list", keys |-> <<<<"T2", "r1">>, <<"T2", "r1">>>>]}

ArrayResponses(key) ==
    {[id |-> key[2], name |-> "a", rel |-> NoKey, rels |-> c] :
        c \in IF key[1] = "T1" THEN ArrayCells ELSE {NoCell}}

RespondArray(req) == RespondWith(req, ArrayResponses(req.key))

\* A catch that takes every failure of the request for a missing row.
GetCatchAll(notFound) == "null"

\* get's catch: if (e instanceof CodaError && e.response.status === 404)
\* return null; throw e
GetCatch(notFound) == IF notFound THEN "null" ELSE "error"

\* A 404 that drops the cache entry of the row that is gone.
RespondNotFoundEvicts(req) ==
    /\ req \in Pending
    /\ req.kind = "get"
    /\ req.key \notin remoteRows
    /\ ev' = [NoEv EXCEPT !.op = "done", !.key = req.key, !.row = req.row,
                          !.holder = req.holder,
                          !.read = PromiseAll(reqs, req, FALSE),
                          !.arr = req.arr,
                          !.out = IF req.row # 0 THEN "error" ELSE GetCatch(TRUE)]
    /\ reqs' = Settle(req, FALSE)
    /\ cache' = [cache EXCEPT ![req.key] = 0]
    /\ UNCHANGED <<inst, remoteRows, returned, wait>>

\* get's response is a 404: get returns null; refresh's enforce then throws
RespondNotFound(req) ==
    /\ req \in Pending
    /\ req.kind = "get"
    /\ req.key \notin remoteRows
    /\ ev' = [NoEv EXCEPT !.op = "done", !.key = req.key, !.row = req.row,
                          !.holder = req.holder,
                          !.read = PromiseAll(reqs, req, FALSE),
                          !.arr = req.arr,
                          !.out = IF req.row # 0 THEN "error" ELSE GetCatch(TRUE)]
    /\ reqs' = Settle(req, FALSE)
    /\ UNCHANGED <<inst, cache, remoteRows, returned, wait>>

\* ------------------------------------------------------------------ insert

\* The row lists insert is called with: one or two row objects of one class.
InsertLists ==
    {<<i>> : i \in Used(inst)}
    \cup {p \in Used(inst) \X Used(inst) : inst[p[1]].cls = inst[p[2]].cls}

\* mapper.insert(rows): enforce(rows.every((r) => !r.id)), then the POST
Insert(rows) ==
    /\ rows \in InsertLists
    /\ \A n \in 1..Len(rows) : inst[rows[n]].vals.id = Undef
    /\ CanSend
    /\ LET twins == {q \in Pending : IsTwinOf(q, 0, rows)}
           req == [NoReq EXCEPT !.kind = "insert",
                                !.key = <<getTableId(inst[rows[1]].cls), "none">>,
                                !.rows = rows, !.twin = (twins # {})]
       IN reqs' = IF twins = {} THEN Send(req)
                  ELSE MarkTwins(reqs, 0, rows) (+) SetToBag({req})
    /\ ev' = NoEv
    /\ UNCHANGED <<inst, cache, remoteRows, returned, wait>>

\* Sequences of n distinct ids the remote can assign to new rows of table t:
\* ids no row of the table has.
FreshIds(t, n) ==
    LET fresh == {r \in RowIds : <<t, r>> \notin remoteRows}
    IN IF n = 1 THEN {<<r>> : r \in fresh}
       ELSE {p \in fresh \X fresh : p[1] # p[2]}

\* The cache entry a row object is filed under when _assign gives it an id:
\* `${getTableId(row)}:${row.id}`.  insert makes no cache.set call of its
\* own; the entry is the row's doing.
Register(C, e, i) ==
    IF e.vals.id = Undef THEN C
    ELSE CacheSet(C, <<getTableId(e.cls), e.vals.id>>, i)

\* An insert that marks the row fetched as well.
InsertRowFetched(e, id) ==
    ResetDirty(Assign(e, [existsOnCoda |-> TRUE, isFetched |-> TRUE],
                      <<"id">>, [id |-> id]))

\* The body of insert's loop once the response is there:
\*   row._assign(this, { existsOnCoda: true }, { id: response.addedRowIds[index] });
\*   row._resetDirty();
InsertRow(e, id) ==
    ResetDirty(Assign(e, [existsOnCoda |-> TRUE], <<"id">>, [id |-> id]))

\* An insert loop whose rows stay out of the cache.
RECURSIVE InsertLoopUnregistered(_, _, _, _, _)
InsertLoopUnregistered(I, C, rows, ids, index) ==
    IF index > Len(rows) THEN [inst |-> I, cache |-> C]
    ELSE InsertLoopUnregistered([I EXCEPT ![rows[index]] = InsertRow(@, ids[index])],
                                C, rows, ids, index + 1)

\* for (const [index, row] of rows.entries()) { ... }
RECURSIVE InsertLoop(_, _, _, _, _)
InsertLoop(I, C, rows, ids, index) ==
    IF index > Len(rows) THEN [inst |-> I, cache |-> C]
    ELSE LET row == rows[index]
             after == InsertRow(I[row], ids[index])
         IN InsertLoop([I EXCEPT ![row] = after], Register(C, after, row),
                       rows, ids, index + 1)

RespondInsert(req) ==
    /\ req \in Pending
    /\ req.kind = "insert"
    /\ \E ids \in FreshIds(req.key[1], Len(req.rows)) :
        LET done == InsertLoop(inst, cache, req.rows, ids, 1)
        IN /\ inst' = done.inst
           /\ cache' = done.cache
           /\ remoteRows' = remoteRows \cup {<<req.key[1], ids[n]>> : n \in 1..Len(ids)}
           /\ ev' = [NoEv EXCEPT !.op = "inserted", !.out = "ok", !.rows = req.rows,
                                 !.ids = ids, !.twin = req.twin]
    /\ reqs' = Take(req)
    /\ UNCHANGED <<returned, wait>>

\* ------------------------------------------------- update, delete, failures

\* A call that throws before it sends anything.
Rejected(op, i) ==
    /\ ev' = [NoEv EXCEPT !.op = op, !.out = "error", !.row = i]
    /\ UNCHANGED <<inst, cache, reqs, remoteRows, returned, wait>>

\* A parseCodaRow that sends a dirty id like any other dirty field.
parseCodaRowWithId(e, includeColumns) ==
    {key \in Fields : key \in getDirtyValues(e) \/ key \in includeColumns}

\* parseCodaRow(row, includeColumns), as the set of fields it makes cells
\* for: the keys of getValues() that are dirty or included, id only when
\* included.
parseCodaRow(e, includeColumns) ==
    {key \in Fields :
        /\ key \in getDirtyValues(e) \/ key \in includeColumns
        /\ key # "id" \/ "id" \in includeColumns}

\* mapper.update(row): enforce(row.id), then the PUT with parseCodaRow(row)
Update(i) ==
    /\ i \in Used(inst)
    /\ IF inst[i].vals.id = Undef THEN Rejected("update", i)
       ELSE /\ CanSend
            /\ reqs' = Send([NoReq EXCEPT !.kind = "update", !.key = RefreshKey(inst[i]),
                                          !.row = i])
            /\ ev' = [NoEv EXCEPT !.op = "update", !.out = "sent", !.row = i,
                                  !.cells = parseCodaRow(inst[i], {}),
                                  !.sent = encodeCells(inst, inst[i],
                                                       parseCodaRow(inst[i], {}))]
            /\ UNCHANGED <<inst, cache, remoteRows, returned, wait>>

\* update after the await: row._resetDirty()
UpdateDone(e) == ResetDirty(e)

\* the PUT succeeded
RespondUpdate(req) ==
    /\ req \in Pending
    /\ req.kind = "update"
    /\ req.key \in remoteRows
    /\ inst' = [inst EXCEPT ![req.row] = UpdateDone(@)]
    /\ ev' = [NoEv EXCEPT !.op = "updated", !.out = "ok", !.row = req.row,
                          !.edited = (getDirtyValues(inst[req.row]) # {})]
    /\ reqs' = Take(req)
    /\ UNCHANGED <<cache, remoteRows, returned, wait>>

\* mapper.updateBatch(rows): enforce(rows.every((r) => r.id)), then upsert
\* with parseCodaRow(r, ['id']) for each row
UpdateBatch(rows) ==
    /\ rows \in InsertLists
    /\ IF \E n \in 1..Len(rows) : inst[rows[n]].vals.id = Undef
       THEN Rejected("batch", rows[1])
       ELSE /\ CanSend
            /\ reqs' = Send([NoReq EXCEPT !.kind = "batch",
                                          !.key = <<getTableId(inst[rows[1]].cls), "none">>,
                                          !.rows = rows])
            /\ ev' = [NoEv EXCEPT !.op = "batch", !.out = "sent", !.rows = rows]
            /\ UNCHANGED <<inst, cache, remoteRows, returned, wait>>

\* the upsert succeeded: for (const row of rows) row._resetDirty()
RespondBatch(req) ==
    /\ req \in Pending
    /\ req.kind = "batch"
    /\ inst' = [i \in Inst |->
                  IF \E n \in 1..Len(req.rows) : req.rows[n] = i
                  THEN UpdateDone(inst[i]) ELSE inst[i]]
    /\ ev' = [NoEv EXCEPT !.op = "batched", !.out = "ok", !.rows = req.rows]
    /\ reqs' = Take(req)
    /\ UNCHANGED <<cache, remoteRows, returned, wait>>

\* mapper.delete(rows): enforce(rows.every((r) => r.id)), then the DELETE
\* with rowIds: rows.map((r) => r.id)
Delete(rows) ==
    /\ rows \in InsertLists
    /\ IF \E n \in 1..Len(rows) : inst[rows[n]].vals.id = Undef
       THEN Rejected("delete", rows[1])
       ELSE /\ CanSend
            /\ reqs' = Send([NoReq EXCEPT !.kind = "delete",
                                          !.key = <<getTableId(inst[rows[1]].cls), "none">>,
                                          !.rows = rows,
                                          !.ids = [n \in 1..Len(rows) |->
                                                     inst[rows[n]].vals.id]])
            /\ ev' = [NoEv EXCEPT !.op = "delete", !.out = "sent", !.rows = rows]
            /\ UNCHANGED <<inst, cache, remoteRows, returned, wait>>

\* the DELETE succeeded: the document loses the rows; delete returns the
\* response and touches neither the row objects nor the cache
RespondDelete(req) ==
    /\ req \in Pending
    /\ req.kind = "delete"
    /\ remoteRows' = remoteRows \ {<<req.key[1], req.ids[n]>> : n \in 1..Len(req.ids)}
    /\ ev' = [NoEv EXCEPT !.op = "deleted", !.out = "ok", !.rows = req.rows]
    /\ reqs' = Take(req)
    /\ UNCHANGED <<inst, cache, returned, wait>>

\* A failure handled as if the save had gone through: the rows of the
\* request get their snapshot reset.
RespondErrorResets(req) ==
    /\ req \in Pending
    /\ ev' = [NoEv EXCEPT !.op = "failed", !.out = "error", !.key = req.key,
                          !.row = req.row, !.holder = req.holder, !.rows = req.rows,
                          !.field = req.kind]
    /\ inst' = [i \in Inst |->
                  IF i = req.row \/ \E n \in 1..Len(req.rows) : req.rows[n] = i
                  THEN ResetDirty(inst[i]) ELSE inst[i]]
    /\ reqs' = Take(req)
    /\ UNCHANGED <<cache, remoteRows, returned, wait>>

\* A request fails (parseJson throws CodaError for a response that is not
\* ok, fetch rejects): the awaiting call throws at its await.  For a GET
\* this is every failure but the 404 of a row the document does not hold.
RespondError(req) ==
    /\ req \in Pending
    /\ ev' = [NoEv EXCEPT !.op = "failed", !.key = req.key,
                          !.row = req.row, !.holder = req.holder, !.rows = req.rows,
                          !.field = req.kind,
                          !.read = PromiseAll(reqs, req, FALSE),
                          !.arr = req.arr,
                          !.out = IF req.kind = "get" /\ req.row = 0
                                  THEN GetCatch(FALSE) ELSE "error"]
    /\ reqs' = Settle(req, FALSE)
    /\ UNCHANGED <<inst, cache, remoteRows, returned, wait>>

\* An enforce that asks for the id only.
RowGuardIdOnly(e) == e.vals.id # Undef

\* enforce(this.id && this._mapper) of CodaTable's refresh, update,
\* updateAndWait, delete and deleteAndWait
RowGuard(e) == e.vals.id # Undef /\ e.mapper

\* row.id = r by the caller
WriteId(i, r) ==
    /\ i \in Used(inst)
    /\ inst' = [inst EXCEPT ![i] = SetField(@, "id", r)]
    /\ ev' = [NoEv EXCEPT !.op = "write", !.row = i, !.field = "id",
                          !.edited = ("id" \in getDirtyValues(inst[i]))]
    /\ UNCHANGED <<cache, reqs, remoteRows, returned, wait>>

\* row.refresh(): the enforce, then mapper.refresh(this) with its own
RowRefresh(i) ==
    /\ i \in Used(inst)
    /\ IF RowGuard(inst[i]) /\ CanRefresh(inst[i]) THEN Refresh(i)
       ELSE Rejected("refresh", i)

\* row.update() and row.updateAndWait(): the enforce, then this.update();
\* updateAndWait polls the mutation status afterwards, which touches no row
RowUpdate(i) ==
    /\ i \in Used(inst)
    /\ IF RowGuard(inst[i]) THEN Update(i) ELSE Rejected("update", i)

\* row.delete() and row.deleteAndWait(): the enforce, then this.delete()
RowDelete(i) ==
    /\ i \in Used(inst)
    /\ IF RowGuard(inst[i]) THEN Delete(<<i>>) ELSE Rejected("delete", i)

\* -------------------------------------------- getValues, getDirtyValues, isDirty
\* A property name as the get trap sees it: <<"_direct_", key>> is the
\* string `_direct_${key}`, <<"", key>> is key.
Direct(key) == <<"_direct_", key>>
Plain(key) == <<"", key>>

\* The get trap for property prop of row i: what it returns for the
\* relation properties (out "sync": the stored value res; "deferred":
\* res.refresh(), or a Promise.all for rels) and the row objects it calls
\* refresh() on.  A `_direct_` name returns Reflect.get of the rest of the
\* name before the relation is looked at.
GetTrap(I, i, prop) ==
    IF prop[1] = "_direct_"
    THEN [out |-> "sync", res |-> I[i].vals.rel, refreshed |-> {}]
    ELSE IF prop[2] = "rel"
    THEN [out |-> GetTrapRel(I, i).out, res |-> GetTrapRel(I, i).res,
          refreshed |-> IF GetTrapRel(I, i).out = "deferred" THEN {I[i].vals.rel} ELSE {}]
    ELSE IF prop[2] = "rels"
    THEN [out |-> IF GetTrapRels(I, i) = {} THEN "sync" ELSE "deferred",
          res |-> I[i].vals.rel,
          refreshed |-> {I[i].vals.rels.items[n] : n \in GetTrapRels(I, i)}]
    ELSE [out |-> "sync", res |-> I[i].vals.rel, refreshed |-> {}]

\* Reads that go through the plain property names.
PropsReadPlain(method) ==
    IF method = "isDirty" THEN {Plain("_isDirty")}
    ELSE {Plain(key) : key \in Fields} \cup {Plain("_original")}

\* The properties of `this` (the proxy) a call of the method reads:
\* getValues reads this[`_direct_${key}`] for every public own key;
\* getDirtyValues calls getValues, reads this._original and
\* this[`_direct_${key}`]; isDirty reads this._isDirty.
PropsRead(method) ==
    IF method = "isDirty" THEN {Plain("_isDirty")}
    ELSE IF method = "getValues" THEN {Direct(key) : key \in Fields}
    ELSE {Direct(key) : key \in Fields} \cup {Plain("_original")}

Methods == {"getValues", "getDirtyValues", "isDirty"}

\* row.getValues(), row.getDirtyValues() or row.isDirty() by the caller: the
\* reads of the method go through the get trap, which sends the GET of
\* every refresh it starts.
ReadCall(i, method) ==
    /\ i \in Used(inst)
    /\ \E items \in {UNION {GetTrap(inst, i, prop).refreshed : prop \in PropsRead(method)}} :
        /\ \A item \in items : CanRefresh(inst[item])
        /\ BagCardinality(reqs) + Cardinality(items) <= MaxPending
        /\ reqs' = reqs (+) SetToBag({[NoReq EXCEPT !.kind = "get",
                                                    !.key = RefreshKey(inst[item]),
                                                    !.row = item, !.holder = i] :
                                        item \in items})
    /\ ev' = [NoEv EXCEPT !.op = "read", !.row = i, !.field = method,
                          !.read = IF \E prop \in PropsRead(method) :
                                        GetTrap(inst, i, prop).out = "deferred"
                                   THEN "pending" ELSE "sync",
                          !.res = inst[i].vals.rel,
                          !.cells = IF method = "getDirtyValues"
                                    THEN getDirtyValues(inst[i]) ELSE {},
                          !.edited = isDirty(inst[i])]
    /\ UNCHANGED <<inst, cache, remoteRows, returned, wait>>

\* ------------------------------------------------- row responses that fail
\* parseDtoRow on a row response whose relation cells are wire values:
\* the decode of a cell can throw, which ends parseDtoRow before its
\* _assign.

\* The @References declarations of a class whose column rel is declared
\* and whose multiple column rels is not.
RelsUndeclared == [rel |-> TRUE, rels |-> FALSE]

\* The row responses for `key`: any name, a rel cell that is absent or a
\* reference to row r1 of T2, a rels cell that is absent, a reference, or
\* an array of no, one or two references.
RichResponses(key) ==
    {[id |-> key[2], name |-> n, rel |-> c, rels |-> d] :
        n \in Names,
        c \in {Absent, Ref(<<"T2", "r1">>)},
        d \in {Absent, List(<<>>), Ref(<<"T2", "r2">>), List(<<Ref(<<"T2", "r1">>)>>),
               List(<<Ref(<<"T2", "r1">>), Ref(<<"T2", "r2">>)>>)}}

\* dtoRow.values[columnId] === undefined ? undefined : decodeRichValue(...)
decodeColumn(I, C, cls, cell, relation, multiple) ==
    IF cell = Absent THEN Returned(I, C, Undefined)
    ELSE decodeRich(I, C, cls, cell, relation, multiple)

\* A decoded value as the field holds it.
AsRel(val) == IF val.type = "row" THEN val.i ELSE 0
AsRels(val) ==
    IF val.type = "array" THEN Arr([n \in 1..Len(val.items) |-> val.items[n].i])
    ELSE NoArr

\* parseDtoRow's loop once the cell of rel is decoded (d1): the cell of
\* rels is decoded on what d1 left, unless d1 threw.
parsedRich(d1, d2, dto) ==
    [inst |-> d2.inst, cache |-> d2.cache,
     err |-> d1.err \/ d2.err,
     at |-> IF d1.err THEN "rel" ELSE IF d2.err THEN "rels" ELSE "none",
     vals |-> [name |-> dto.name, rel |-> AsRel(d1.val), rels |-> AsRels(d2.val),
               id |-> dto.id]]

parsedAfterRel(d1, cls, dto, declared) ==
    IF d1.err THEN parsedRich(d1, d1, dto)
    ELSE parsedRich(d1, decodeColumn(d1.inst, d1.cache, cls, dto.rels,
                                     declared.rels, TRUE), dto)

parsedRichValues(I, C, cls, dto, declared) ==
    parsedAfterRel(decodeColumn(I, C, cls, dto.rel, declared.rel, FALSE),
                   cls, dto, declared)

\* What parseDtoRow leaves when it returns: a is assignParsedRow's result.
Assigned(a) == [inst |-> a.inst, cache |-> a.cache, res |-> a.res, err |-> FALSE,
                at |-> "none"]

\* parseDtoRow after the loop, or nothing more when the loop threw.
assignRich(I, p, cls, dto) ==
    IF p.err THEN [inst |-> p.inst, cache |-> p.cache, res |-> 0, err |-> TRUE, at |-> p.at]
    ELSE Assigned(assignParsedRow(I, p, cls, dto))

\* A parseDtoRow that writes each value to the cached row as soon as its
\* cell is decoded: a throw leaves the name of the response in the row.
parseRichRowEager(I, C, cls, dto, declared) ==
    LET key == <<getTableId(cls), dto.id>>
        p == parsedRichValues(I, C, cls, dto, declared)
    IN IF p.err /\ C[key] # 0
       THEN [inst |-> [p.inst EXCEPT ![C[key]] = SetField(@, "name", dto.name)],
             cache |-> p.cache, res |-> 0, err |-> TRUE, at |-> p.at]
       ELSE assignRich(I, p, cls, dto)

\* parseDtoRow(table, dtoRow) for a class with the declarations `declared`
parseRichRow(I, C, cls, dto, declared) ==
    assignRich(I, parsedRichValues(I, C, cls, dto, declared), cls, dto)

\* The bounds leave room for the row objects the parse constructs.
RichNeeds(C, cls, dto) ==
    {k \in {<<getTableId(cls), dto.id>>} \cup RefKeys(dto.rel) \cup RefKeys(dto.rels) :
        C[k] = 0}

CanParseRich(I, C, cls, dto) ==
    /\ \A k \in RichNeeds(C, cls, dto) : FreeOf(I, KeySlots(k)) # {}
    /\ Cardinality(Used(I)) + Cardinality(RichNeeds(C, cls, dto)) <= MaxInst

\* The GET of get or refresh is answered with a row of a class with the
\* declarations `declared`: parseDtoRow returns the row, or throws and get
\* rethrows (the error is no CodaError).  ev.field is the column whose
\* decode threw.
RespondRich(req, declared) ==
    /\ req \in Pending
    /\ req.kind = "get"
    /\ req.key \in remoteRows
    /\ \E dto \in RichResponses(req.key) :
        /\ CanParseRich(inst, cache, req.key[1], dto)
        /\ \E p \in {parseRichRow(inst, cache, req.key[1], dto, declared)} :
            /\ inst' = p.inst
            /\ cache' = p.cache
            /\ returned' = IF p.err THEN returned
                           ELSE [returned EXCEPT ![req.key] =
                                   @ \cup {<<IF req.row # 0 THEN req.row ELSE p.res,
                                             req.row = 0 \/ req.row = cache[req.key]>>}]
            /\ ev' = [NoEv EXCEPT !.op = "done",
                                  !.out = IF p.err THEN "error" ELSE "ok",
                                  !.key = req.key, !.row = req.row,
                                  !.holder = req.holder, !.field = p.at,
                                  !.res = IF p.err THEN 0
                                          ELSE IF req.row # 0 THEN req.row ELSE p.res,
                                  !.parsed = p.res, !.dto = dto,
                                  !.hit = cache[req.key],
                                  !.edited = (cache[req.key] # 0
                                              /\ getDirtyValues(inst[cache[req.key]]) # {})]
    /\ reqs' = Settle(req, FALSE)
    /\ UNCHANGED <<remoteRows, wait>>

\* ----------------------------------------------------------- find, all, first
\* mapper.all(table) / mapper.find(table, property, value): GET rows; the
\* query of find selects rows in the document, the loop is the same.
All(cls) ==
    /\ CanSend
    /\ reqs' = Send([NoReq EXCEPT !.kind = "rows", !.key = <<cls, "none">>])
    /\ ev' = NoEv
    /\ UNCHANGED <<inst, cache, remoteRows, returned, wait>>

\* mapper.first(table, property, value): GET rows with limit: 1
First(cls) ==
    /\ CanSend
    /\ reqs' = Send([NoReq EXCEPT !.kind = "rows", !.key = <<cls, "none">>,
                                  !.first = TRUE])
    /\ ev' = NoEv
    /\ UNCHANGED <<inst, cache, remoteRows, returned, wait>>

\* The pages the document can answer with: up to `limit` rows of the table
\* that no earlier page of the call held, each with any cells.
Unlisted(cls, done) ==
    UNION {RowResponses(<<cls, r>>) :
             r \in {x \in RowIds : /\ <<cls, x>> \in remoteRows
                                   /\ \A n \in 1..Len(done) : done[n].id # x}}
Pages(cls, done, limit) ==
    {<<>>} \cup {<<d>> : d \in Unlisted(cls, done)}
           \cup {pr \in Unlisted(cls, done) \X Unlisted(cls, done) :
                    limit > 1 /\ pr[1].id # pr[2].id}

\* response.items.map((row) => this.parseDtoRow(table, row)): each parse
\* sees the instances and the cache the one before it left.
parseNext(done, p) ==
    [inst |-> p.inst, cache |-> p.cache, val |-> Append(done.val, p.res)]

RECURSIVE parseItems(_, _, _)
parseItems(done, cls, dtos) ==
    IF dtos = <<>> THEN done
    ELSE parseItems(parseNext(done, parseDtoRow(done.inst, done.cache, cls, Head(dtos))),
                    cls, Tail(dtos))

\* The bounds leave room for the row objects the parses construct.
RECURSIVE CanParseItems(_, _, _)
CanParseItems(done, cls, dtos) ==
    IF dtos = <<>> THEN TRUE
    ELSE /\ CanParse(done.inst, done.cache, cls, Head(dtos))
         /\ CanParseItems(parseNext(done, parseDtoRow(done.inst, done.cache, cls,
                                                      Head(dtos))),
                          cls, Tail(dtos))

\* The fetches completed per key, with those of a list that returned
\* items for dtos.
ReturnedWith(cls, items, dtos) ==
    [k \in Keys |-> returned[k] \cup
        {<<items[n], TRUE>> : n \in {m \in 1..Len(items) : <<cls, dtos[m].id>> = k}}]

\* A page of rows arrives: its rows are parsed in order; with a
\* nextPageToken (more) find and all request the next page, without one
\* they return the items of all pages; first returns the first item or null.
RespondPage(req, more) ==
    /\ req \in Pending
    /\ req.kind = "rows"
    /\ more => ~req.first /\ req.page + 1 < MaxPages
    /\ \E page \in Pages(req.key[1], req.dtos, IF req.first THEN 1 ELSE 2) :
        /\ CanParseItems([inst |-> inst, cache |-> cache, val |-> <<>>], req.key[1], page)
        /\ \E p \in {parseItems([inst |-> inst, cache |-> cache, val |-> <<>>],
                                 req.key[1], page)} :
            /\ inst' = p.inst
            /\ cache' = p.cache
            /\ IF more
               THEN /\ reqs' = Take(req) (+) SetToBag({[req EXCEPT !.page = @ + 1,
                                                                   !.items = @ \o p.val,
                                                                   !.dtos = @ \o page]})
                    /\ ev' = NoEv
                    /\ UNCHANGED returned
               ELSE /\ reqs' = Take(req)
                    /\ ev' = [NoEv EXCEPT !.op = "listed", !.out = "ok", !.key = req.key,
                                          !.items = req.items \o p.val,
                                          !.dtos = req.dtos \o page,
                                          !.res = IF req.first /\ p.val # <<>>
                                                  THEN p.val[1] ELSE 0]
                    /\ returned' = ReturnedWith(req.key[1], req.items \o p.val,
                                                req.dtos \o page)
    /\ UNCHANGED <<remoteRows, wait>>

\* --------------------------------------------------------- waitForMutation
\* `if (failCounter >= 5)`
Attempts == 5

\* What one getMutationStatus can answer: completed true, completed false,
\* a CodaError with status 404, any other failure.
Answers == {"completed", "pending", "notFound", "error"}

\* The loop body with a successful poll resetting failCounter.
pollResets(w, answer) ==
    CASE answer = "completed" ->
           [w EXCEPT !.answers = Append(@, answer), !.completed = TRUE,
                     !.failCounter = 0, !.pc = "returned"]
      [] answer = "pending" ->
           [w EXCEPT !.answers = Append(@, answer), !.completed = FALSE,
                     !.failCounter = 0]
      [] answer = "notFound" ->
           [w EXCEPT !.answers = Append(@, answer), !.failCounter = @ + 1,
                     !.pc = IF w.failCounter + 1 >= Attempts THEN "thrown" ELSE "delay",
                     !.err = IF w.failCounter + 1 >= Attempts THEN "attempts" ELSE "none"]
      [] OTHER ->
           [w EXCEPT !.answers = Append(@, answer), !.pc = "thrown", !.err = "rethrown"]

\* A loop body that goes on waiting when completed = true is answered
\* after a 404.
pollOnlyUnfailed(w, answer) ==
    CASE answer = "completed" ->
           IF w.failCounter > 0 THEN [w EXCEPT !.answers = Append(@, answer)]
           ELSE [w EXCEPT !.answers = Append(@, answer), !.completed = TRUE,
                          !.pc = "returned"]
      [] answer = "pending" ->
           [w EXCEPT !.answers = Append(@, answer), !.completed = FALSE]
      [] answer = "notFound" ->
           [w EXCEPT !.answers = Append(@, answer), !.failCounter = @ + 1,
                     !.pc = IF w.failCounter + 1 >= Attempts THEN "thrown" ELSE "delay",
                     !.err = IF w.failCounter + 1 >= Attempts THEN "attempts" ELSE "none"]
      [] OTHER ->
           [w EXCEPT !.answers = Append(@, answer), !.pc = "thrown", !.err = "rethrown"]

\* One turn of `while (!completed)`: the delay, the poll and its catch.  The
\* loop ends when completed is set (return response), on the fifth 404
\* (throw new Error) and on any other failure (throw e).
poll(w, answer) ==
    CASE answer = "completed" ->
           [w EXCEPT !.answers = Append(@, answer), !.completed = TRUE,
                     !.pc = "returned"]
      [] answer = "pending" ->
           [w EXCEPT !.answers = Append(@, answer), !.completed = FALSE]
      [] answer = "notFound" ->
           [w EXCEPT !.answers = Append(@, answer), !.failCounter = @ + 1,
                     !.pc = IF w.failCounter + 1 >= Attempts THEN "thrown" ELSE "delay",
                     !.err = IF w.failCounter + 1 >= Attempts THEN "attempts" ELSE "none"]
      [] OTHER ->
           [w EXCEPT !.answers = Append(@, answer), !.pc = "thrown", !.err = "rethrown"]

\* mapper.waitForMutation(codaRequest): the call, up to `await codaRequest`
WaitForMutation ==
    /\ wait.pc \in {"none", "returned", "thrown"}
    /\ wait' = [NoWait EXCEPT !.pc = "request"]
    /\ ev' = NoEv
    /\ UNCHANGED <<inst, cache, reqs, remoteRows, returned>>

\* A wait that takes the resolved request for the completed mutation and
\* returns without a poll.
RequestResolvedReturns ==
    /\ wait.pc = "request"
    /\ wait' = [wait EXCEPT !.pc = "returned", !.completed = TRUE, !.failCounter = 0]
    /\ ev' = NoEv
    /\ UNCHANGED <<inst, cache, reqs, remoteRows, returned>>

\* codaRequest resolves: `let completed = false; let failCounter = 0`
RequestResolved ==
    /\ wait.pc = "request"
    /\ wait' = [wait EXCEPT !.pc = "delay", !.completed = FALSE, !.failCounter = 0]
    /\ ev' = NoEv
    /\ UNCHANGED <<inst, cache, reqs, remoteRows, returned>>

\* codaRequest rejects: the await throws before the loop
RequestRejected ==
    /\ wait.pc = "request"
    /\ wait' = [wait EXCEPT !.pc = "thrown", !.err = "rejected"]
    /\ ev' = NoEv
    /\ UNCHANGED <<inst, cache, reqs, remoteRows, returned>>

\* `await delay(delayTime)`, then getMutationStatus answers
Poll(answer) ==
    /\ wait.pc = "delay"
    /\ Len(wait.answers) < MaxPolls
    /\ wait' = poll(wait, answer)
    /\ ev' = NoEv
    /\ UNCHANGED <<inst, cache, reqs, remoteRows, returned>>

\* One turn of the loop in a wait of any length: the answers kept are the
\* last MaxPolls, which is all the record that the loop's own variables
\* (completed, failCounter) do not hold; turn changes with every poll, so
\* that a poll is a step even when its answer changes nothing else.
pollOn(w, answer) ==
    IF Len(w.answers) < MaxPolls THEN poll([w EXCEPT !.turn = 1 - @], answer)
    ELSE poll([w EXCEPT !.answers = Tail(@), !.turn = 1 - @], answer)

PollOn(answer) ==
    /\ wait.pc = "delay"
    /\ wait' = pollOn(wait, answer)
    /\ ev' = NoEv
    /\ UNCHANGED <<inst, cache, reqs, remoteRows, returned>>

\* ------------------------------------------------------------------- Next

Next ==
    \/ \E cls \in Tables : New(cls)
    \/ \E i \in Inst, v \in Names : WriteName(i, v)
    \/ \E i \in Inst, j \in Inst \cup {0} : WriteRel(i, j)
    \/ \E i \in Inst : ResetDirtyCall(i)
    \/ \E cls \in Tables, r \in RowIds : Get(cls, r)
    \/ \E i \in Inst : Refresh(i)
    \/ \E i \in Inst : ReadRel(i)
    \/ ClearCache
    \/ \E req \in Pending : RespondRow(req)
    \/ \E req \in Pending : RespondNotFound(req)
    \/ \E rows \in InsertLists : Insert(rows)
    \/ \E req \in Pending : RespondInsert(req)

Spec == Init /\ [][Next]_vars

\* Callers that construct row objects, write their fields and reset them.
NextEntity ==
    \/ \E cls \in Tables : New(cls)
    \/ \E i \in Inst, v \in Names : WriteName(i, v)
    \/ \E i \in Inst, j \in Inst \cup {0} : WriteRel(i, j)
    \/ \E i \in Inst : ResetDirtyCall(i)

SpecEntity == Init /\ [][NextEntity]_vars

\* Callers that construct one row of each class and assign row objects,
\* strings, arrays and undefined to the relation fields of the T1 row.
OfClass(cls) == {i \in Used(inst) : inst[i].cls = cls}

NextAssign ==
    \/ \E cls \in Tables : OfClass(cls) = {} /\ New(cls)
    \/ \E i \in OfClass("T1"), v \in RelValues : SetRelation(i, "rel", v)
    \/ \E i \in OfClass("T1"), v \in RelsValues : SetRelation(i, "rels", v)
    \/ \E i \in OfClass("T1") : ResetDirtyCall(i)

SpecAssign == InitEmptyDoc /\ [][NextAssign]_vars

\* The parse of a row response whose cells are strings.
NextCells == ParseCells

SpecCells == InitCells /\ [][NextCells]_vars

SpecDecode == InitDecode /\ [][NextDecode]_vars

\* Callers that get and refresh rows and edit them.
NextMerge ==
    \/ \E i \in Inst, v \in Names : WriteName(i, v)
    \/ \E cls \in Tables, r \in RowIds : Get(cls, r)
    \/ \E i \in Inst : Refresh(i)
    \/ \E req \in Pending : RespondRow(req)
    \/ \E req \in Pending : RespondNotFound(req)

SpecMerge == Init /\ [][NextMerge]_vars

\* Callers that get rows and read their relation fields.
NextLazy ==
    \/ \E cls \in Tables, r \in RowIds : Get(cls, r)
    \/ \E i \in Inst : ReadRel(i)
    \/ ClearCache
    \/ \E req \in Pending : RespondRow(req)
    \/ \E req \in Pending : RespondNotFound(req)

SpecLazy == Init /\ [][NextLazy]_vars

\* Callers that get rows and read their relation fields, each read seen
\* with what it returned.
NextFetch ==
    \/ \E cls \in Tables, r \in RowIds : Get(cls, r)
    \/ \E i \in Inst : ReadField(i)
    \/ \E req \in Pending : RespondRow(req)
    \/ \E req \in Pending : RespondNotFound(req)

SpecFetch == Init /\ [][NextFetch]_vars

\* Callers that get row r1 of T1, read its relation field and delete rows
\* they hold, the placeholder of the referenced row among them, so that a
\* read can find the row it fetches gone from the document.
NextGone ==
    \/ Get("T1", "r1")
    \/ \E i \in Inst : ReadField(i)
    \/ \E i \in Inst : Delete(<<i>>)
    \/ \E req \in Pending : RespondDelete(req)
    \/ \E req \in Pending : RespondRow(req)
    \/ \E req \in Pending : RespondNotFound(req)

SpecGone == InitTwoRows /\ [][NextGone]_vars

\* Callers that walk a cycle of references: they get row r1 of T1 and read
\* the relation fields of the rows they hold; the cache may be cleared.
NextCycle ==
    \/ Get("T1", "r1")
    \/ \E i \in Inst : ReadRel(i)
    \/ ClearCache
    \/ \E req \in Pending : RespondCycle(req)

SpecCycle == InitTwoRows /\ [][NextCycle]_vars

\* Callers that read arrays of references: they get row r1 of T1, whose
\* multiple relation column references rows of T2, construct a row of
\* each class and assign arrays to the relation field of their T1 row, and
\* read the arrays; the cache may be cleared and a request may fail.
ArraysOf(rows) ==
    {Arr(<<a>>) : a \in rows} \cup {Arr(<<a, b>>) : a \in rows, b \in rows}

NextArray ==
    \/ Get("T1", "r1")
    \/ \E cls \in Tables : OfClass(cls) \cap NewSlots = {} /\ New(cls)
    \/ \E i \in OfClass("T1") \cap NewSlots, v \in ArraysOf(OfClass("T2")) :
         SetRelation(i, "rels", v)
    \/ \E i \in Inst : ReadRels(i)
    \/ ClearCache
    \/ \E req \in Pending : RespondArray(req)
    \/ \E req \in Pending : RespondError(req)

\* A mapper just constructed, on a document that holds row r1 of T1 and
\* rows r1 and r2 of T2
InitArrayRows == InitWith({<<"T1", "r1">>, <<"T2", "r1">>, <<"T2", "r2">>})

SpecArray == InitArrayRows /\ [][NextArray]_vars

\* No request is in flight.
Idle == reqs = EmptyBag

\* One task that takes rows through their whole life and awaits every call
\* before it goes on: it constructs rows of T1, inserts, refreshes, updates
\* and deletes them, gets row r1 of T1, reads relations (which decodes and
\* resolves rows of T2) and clears the cache.
NextLife ==
    \/ Idle /\ New("T1")
    \/ Idle /\ \E i \in NewSlots : Insert(<<i>>)
    \/ \E req \in Pending : RespondInsert(req)
    \/ Idle /\ Get("T1", "r1")
    \/ Idle /\ \E i \in NewSlots : Refresh(i)
    \/ Idle /\ \E i \in Inst : ReadRel(i)
    \/ Idle /\ \E i \in NewSlots : Update(i)
    \/ \E req \in Pending : RespondUpdate(req)
    \/ Idle /\ \E i \in NewSlots : Delete(<<i>>)
    \/ \E req \in Pending : RespondDelete(req)
    \/ Idle /\ ClearCache
    \/ \E req \in Pending : RespondRow(req)
    \/ \E req \in Pending : RespondNotFound(req)

SpecLife == InitTwoRows /\ [][NextLife]_vars

\* Callers that use the row's own methods: they construct rows of T2 and
\* may write their id, get row r1 of T2, and call refresh, update and
\* delete on any row.
NextRow ==
    \/ New("T2")
    \/ \E i \in Inst : WriteId(i, "r1")
    \/ Get("T2", "r1")
    \/ \E req \in Pending : RespondRow(req)
    \/ \E i \in Inst : RowRefresh(i)
    \/ \E i \in Inst : RowUpdate(i)
    \/ \E req \in Pending : RespondUpdate(req)
    \/ \E i \in Inst : RowDelete(i)
    \/ \E req \in Pending : RespondDelete(req)
    \/ \E req \in Pending : RespondNotFound(req)

SpecRow == InitTwoRows /\ [][NextRow]_vars

\* Callers that look rows up, among them rows the document does not hold
\* or holds no more: they get any row of T2, delete the rows they got, and
\* a request may fail.
NextFind ==
    \/ \E r \in RowIds : Get("T2", r)
    \/ \E req \in Pending : RespondRow(req)
    \/ \E req \in Pending : RespondNotFound(req)
    \/ \E req \in Pending : RespondError(req)
    \/ \E i \in Inst : Refresh(i)
    \/ \E i \in Inst : Delete(<<i>>)
    \/ \E req \in Pending : RespondDelete(req)

SpecFind == InitTwoRows /\ [][NextFind]_vars

\* Callers that push rows they gave an id themselves: they construct rows
\* of T2, write id and name, and update them; the document holds the row.
NextPush ==
    \/ New("T2")
    \/ \E i \in Inst, v \in Names : WriteName(i, v)
    \/ \E i \in Inst : WriteId(i, "r1")
    \/ \E i \in Inst : Update(i)
    \/ \E req \in Pending : RespondUpdate(req)

SpecPush == InitTwoRows /\ [][NextPush]_vars

\* One task that writes while its update is in flight: it constructs rows
\* of T2, gives them the id of the document's row and the name "a", and
\* calls update without awaiting it; while the PUT is in flight it writes
\* the name "b", the only writes of "b" there are; then the PUT succeeds.
UpdateInFlight(i) == \E q \in Pending : q.kind = "update" /\ q.row = i

NextAbsorb ==
    \/ Idle /\ New("T2")
    \/ \E i \in Inst : Idle /\ WriteId(i, "r1")
    \/ \E i \in Inst : Idle /\ WriteName(i, "a")
    \/ \E i \in Inst : Idle /\ Update(i)
    \/ \E i \in Inst : UpdateInFlight(i) /\ WriteName(i, "b")
    \/ \E req \in Pending : RespondUpdate(req)

SpecAbsorb == InitTwoRows /\ [][NextAbsorb]_vars

\* Callers that get and refresh row r1 of a class whose multiple column
\* rels lacks its @References, get the rows of T2 and edit the rows they
\* hold; the document holds row r1 of T1 and rows r1 and r2 of T2.
NextRich ==
    \/ Idle /\ Get("T1", "r1")
    \/ \E r \in RowIds : Idle /\ Get("T2", r)
    \/ \E i \in OfClass("T1") : Idle /\ Refresh(i)
    \/ \E i \in OfClass("T1"), v \in Names : WriteName(i, v)
    \/ \E req \in Pending : req.key[1] = "T1" /\ RespondRich(req, RelsUndeclared)
    \/ \E req \in Pending : req.key[1] = "T2" /\ RespondRow(req)

SpecRich == InitArrayRows /\ [][NextRich]_vars

\* Callers that save rows: they construct rows of T2, name them, insert,
\* update and batch-update them, and any request may fail.
NextSave ==
    \/ New("T2")
    \/ \E i \in Inst, v \in Names : WriteName(i, v)
    \/ \E i \in Inst : Insert(<<i>>)
    \/ \E req \in Pending : RespondInsert(req)
    \/ \E i \in Inst : Update(i)
    \/ \E req \in Pending : RespondUpdate(req)
    \/ \E rows \in InsertLists : UpdateBatch(rows)
    \/ \E req \in Pending : RespondBatch(req)
    \/ \E req \in Pending : RespondError(req)

SpecSave == InitEmptyDoc /\ [][NextSave]_vars

\* Callers that construct rows of table T1, name them, insert them and get
\* the rows the document holds, on a document that starts without rows.
NextInsert ==
    \/ New("T1")
    \/ \E i \in Inst : WriteName(i, "a")
    \/ \E rows \in InsertLists : Insert(rows)
    \/ \E req \in Pending : RespondInsert(req)
    \/ \E k \in remoteRows : Get(k[1], k[2])
    \/ \E req \in Pending : RespondRow(req)

SpecInsert == InitEmptyDoc /\ [][NextInsert]_vars

\* One task that writes references and awaits every call: it gets row r1
\* of T1, constructs a row of T2 and may give it an id, assigns rows of T2
\* and arrays of them to the relation fields of the T1 row, and updates it.
NextEncode ==
    \/ Idle /\ Get("T1", "r1")
    \/ \E req \in Pending : RespondRow(req)
    \/ OfClass("T2") \cap NewSlots = {} /\ New("T2")
    \/ \E i \in NewSlots : WriteId(i, "r2")
    \/ \E i \in OfClass("T1"), v \in OfClass("T2") \cup {0} : SetRelation(i, "rel", v)
    \/ \E i \in OfClass("T1"), v \in ArraysOf(OfClass("T2")) : SetRelation(i, "rels", v)
    \/ Idle /\ \E i \in OfClass("T1") : Update(i)
    \/ \E req \in Pending : RespondUpdate(req)

SpecEncode == InitTwoRows /\ [][NextEncode]_vars

\* One task that clears the cache: it gets row r1 of T2, names the rows
\* it holds and refreshes them, awaiting each request, and clears the
\* cache at any time.
NextClear ==
    \/ Idle /\ Get("T2", "r1")
    \/ \E i \in Inst, v \in Names : WriteName(i, v)
    \/ Idle /\ \E i \in Inst : Refresh(i)
    \/ ClearCache
    \/ \E req \in Pending : RespondRow(req)

SpecClear == InitTwoRows /\ [][NextClear]_vars

\* One task that does whatever touches the cache and awaits every call: it
\* constructs rows of T1 and inserts them, gets rows of both tables (row
\* r2 of T2 is not in the document), reads relations, updates rows, deletes
\* rows of T2 and clears the cache.  The document gives a new row an id
\* that no row has had: rows of T1 are not deleted.
NextStable ==
    \/ Idle /\ New("T1")
    \/ Idle /\ \E i \in NewSlots : Insert(<<i>>)
    \/ \E req \in Pending : RespondInsert(req)
    \/ Idle /\ \E cls \in Tables : Get(cls, "r1")
    \/ Idle /\ Get("T2", "r2")
    \/ Idle /\ \E i \in Inst : ReadRel(i)
    \/ Idle /\ \E i \in Inst : Update(i)
    \/ \E req \in Pending : RespondUpdate(req)
    \/ Idle /\ \E i \in OfClass("T2") : Delete(<<i>>)
    \/ \E req \in Pending : RespondDelete(req)
    \/ Idle /\ ClearCache
    \/ \E req \in Pending : RespondRow(req)
    \/ \E req \in Pending : RespondNotFound(req)
    \/ \E req \in Pending : RespondError(req)

SpecStable == InitTwoRows /\ [][NextStable]_vars

\* Callers that fetch rows one call at a time, by id and by lists, and edit
\* the rows they hold between the calls.
NextList ==
    \/ Idle /\ \E i \in Inst, v \in Names : WriteName(i, v)
    \/ Idle /\ \E cls \in Tables, r \in RowIds : Get(cls, r)
    \/ Idle /\ \E cls \in Tables : All(cls)
    \/ Idle /\ \E cls \in Tables : First(cls)
    \/ \E req \in Pending : RespondRow(req)
    \/ \E req \in Pending : RespondNotFound(req)
    \/ \E req \in Pending, more \in BOOLEAN : RespondPage(req, more)

SpecList == Init /\ [][NextList]_vars

\* Callers that get rows of T1, edit them, read their relation and call
\* their read methods.
NextRead ==
    \/ Idle /\ \E r \in RowIds : Get("T1", r)
    \/ \E i \in Inst, v \in Names : WriteName(i, v)
    \/ \E i \in Inst, method \in Methods : ReadCall(i, method)
    \/ \E i \in Inst : ReadRel(i)
    \/ \E req \in Pending : RespondRow(req)

SpecRead == Init /\ [][NextRead]_vars

\* waitForMutation alone: the mutation request resolves or rejects, the
\* status polls answer in any order.
NextWait ==
    \/ WaitForMutation
    \/ RequestResolved
    \/ RequestRejected
    \/ \E answer \in Answers : Poll(answer)

SpecWait == InitEmptyDoc /\ [][NextWait]_vars

\* waitForMutation with no limit on the number of polls.  The timer of
\* delay(delayTime) fires and the status request settles, so a wait in its
\* loop goes on to its next poll (weak fairness of the poll); the awaited
\* mutation request settles (weak fairness of its resolution); and the
\* endpoint, asked for the status of the request again and again, reports
\* it completed at some poll (strong fairness of that answer).
NextWaitOn ==
    \/ WaitForMutation
    \/ RequestResolved
    \/ RequestRejected
    \/ \E answer \in Answers : PollOn(answer)

SpecWaitFair ==
    /\ InitEmptyDoc
    /\ [][NextWaitOn]_vars
    /\ WF_vars(RequestResolved \/ RequestRejected)
    /\ WF_vars(\E answer \in Answers : PollOn(answer))
    /\ SF_vars(PollOn("completed"))

\* ------------------------------------------------------------------ claims

Clean(e) == ~isDirty(e) /\ getDirtyValues(e) = {}

\* C7: dirty round-trip.  Whatever was written before, after _resetDirty()
\* isDirty() is false and getDirtyValues() is empty; and when a row that has
\* a snapshot differs from it in exactly one field (the state a write to a
\* different value leaves after a reset), writing that field back to its
\* snapshot value leaves isDirty() false and getDirtyValues() empty.
C7_DirtyRoundTrip ==
    [][/\ ev'.op = "reset" => Clean(inst'[ev'.row])
       /\ \A i \in Inst, f \in Fields :
            (/\ ev'.op = "write" /\ ev'.row = i /\ ev'.field = f
             /\ inst[i].orig.has
             /\ getDirtyValues(inst[i]) = {f}
             /\ inst'[i].vals[f] = inst[i].orig[f])
            => Clean(inst'[i])]_vars

\* A row was reset, a field written away from its snapshot value and then
\* written back: the row is clean again.
C7_Witness ==
    /\ ev.op = "write" /\ ev.edited
    /\ inst[ev.row].orig.has
    /\ inst[ev.row].orig.name # Undef
    /\ Clean(inst[ev.row])

\* C8: after every field write, isDirty() is true exactly when
\* getDirtyValues() is non-empty.
C8_DirtyIffDirtyValues ==
    ev.op = "write" => (isDirty(inst[ev.row]) <=> getDirtyValues(inst[ev.row]) # {})

\* What decoding the rel cell of a row response yields: undefined for an
\* absent cell, else the row object the cache holds for the referenced key.
DecodedRel(dto) == IF dto.rel = NoKey THEN 0 ELSE cache[dto.rel]

\* C2: merge in place.  When a row response is decoded while the cache holds
\* a row object for its key, that object has every mapped field overwritten
\* with the response's value (name, rel and id, unsaved edits included), its
\* snapshot is reset so that isDirty() is false and nothing is dirty, and
\* parseDtoRow returns that object.
C2_MergeInPlace ==
    (ev.op = "done" /\ ev.out = "ok" /\ ev.hit # 0) =>
        /\ ev.parsed = ev.hit
        /\ cache[ev.key] = ev.hit
        /\ inst[ev.hit].vals.id = ev.dto.id
        /\ inst[ev.hit].vals.name = ev.dto.name
        /\ inst[ev.hit].vals.rel = DecodedRel(ev.dto)
        /\ ev.dto.rel # NoKey => inst[ev.hit].vals.rel # 0
        /\ Clean(inst[ev.hit])

\* A response was merged into a cached row that had an unsaved edit of name
\* (the snapshot held the other name, so the edit was to the value the row
\* shows no more).
C2_Witness ==
    /\ ev.op = "done" /\ ev.out = "ok" /\ ev.hit # 0 /\ ev.edited
    /\ ev.parsed = ev.hit
    /\ inst[ev.hit].vals.name = ev.dto.name
    /\ Clean(inst[ev.hit])

\* C3: merge-no-downgrade.  When a row response carries a relation reference
\* to a key whose cached row object is fetched, the decoded field holds that
\* same object and the object is left as it was: isFetched, existsOnCoda,
\* field values, snapshot and dirty flag.
C3_NoDowngrade ==
    [][\A k \in Keys :
        (/\ ev'.op = "done" /\ ev'.out = "ok" /\ ev'.dto.rel = k
         /\ cache[k] # 0
         /\ inst[cache[k]].isFetched)
        => /\ inst'[ev'.parsed].vals.rel = cache[k]
           /\ cache'[k] = cache[k]
           /\ inst'[cache[k]] = inst[cache[k]]]_vars

\* A response referencing a fetched row with unsaved edits was decoded: the
\* referenced row is still fetched and still dirty.
C3_Witness ==
    /\ ev.op = "done" /\ ev.out = "ok" /\ ev.dto.rel # NoKey
    /\ inst[ev.parsed].vals.rel = cache[ev.dto.rel]
    /\ inst[cache[ev.dto.rel]].isFetched
    /\ isDirty(inst[cache[ev.dto.rel]])

\* The instances the fetches of key k returned since the last clear.
ReturnedFor(k) == {p[1] : p \in returned[k]}

ReadsDeferIffPlaceholder ==
    \A i \in Used(inst) :
        /\ GetTrapRel(inst, i).res = inst[i].vals.rel
        /\ GetTrapRel(inst, i).out = "deferred"
           <=> (inst[i].vals.rel # 0 /\ IsPlaceholder(inst[inst[i].vals.rel]))

OtherHolders == {j \in Used(inst) \ {ev.holder} : inst[j].vals.rel = ev.row}

InsertedAsClaimed(before, after, id) ==
    /\ after.vals.id = id
    /\ after.existsOnCoda
    /\ ~after.isFetched
    /\ after.vals.name = before.vals.name
    /\ after.vals.rel = before.vals.rel
    /\ getDirtyValues(after) = {}

\* The rows of a list are distinct objects.
Distinct(rows) == \A m, n \in 1..Len(rows) : m # n => rows[m] # rows[n]

\* C9 as stated: after insert succeeds, the i-th row passed has the i-th id
\* of the response, existsOnCoda true and isFetched false, its name and rel
\* as they were before the response, and no dirty value.
C9_InsertedRows ==
    [][ev'.op = "inserted" =>
        \A n \in 1..Len(ev'.rows) :
            InsertedAsClaimed(inst[ev'.rows[n]], inst'[ev'.rows[n]], ev'.ids[n])]_vars

\* What does hold of insert: the same, for an insert whose rows are distinct
\* objects none of which was in another insert in flight together with it.
C9_InsertedDistinctRows ==
    [][(ev'.op = "inserted" /\ Distinct(ev'.rows) /\ ~ev'.twin) =>
        \A n \in 1..Len(ev'.rows) :
            InsertedAsClaimed(inst[ev'.rows[n]], inst'[ev'.rows[n]], ev'.ids[n])]_vars

\* Two distinct rows were inserted in one call, the second with a name
\* written before.
C9_Witness ==
    /\ ev.op = "inserted" /\ Len(ev.rows) = 2 /\ Distinct(ev.rows) /\ ~ev.twin
    /\ inst[ev.rows[1]].vals.id = ev.ids[1]
    /\ inst[ev.rows[2]].vals.id = ev.ids[2]
    /\ inst[ev.rows[2]].vals.name # Undef
    /\ ~inst[ev.rows[2]].isFetched
    /\ getDirtyValues(inst[ev.rows[2]]) = {}

\* The row objects the caller constructed that an insert has completed for.
Inserted == {i \in NewSlots : inst[i].cls # "none" /\ inst[i].existsOnCoda}

C11_FetchedExists ==
    \A i \in Used(inst) : inst[i].isFetched => inst[i].existsOnCoda

\* A placeholder made by a relation decode was fetched later: the _assign
\* that set isFetched found existsOnCoda set by the earlier one.
C11_Witness ==
    /\ ev.op = "done" /\ ev.out = "ok" /\ ev.hit # 0
    /\ inst[ev.hit].isFetched /\ inst[ev.hit].existsOnCoda
    /\ \E j \in Used(inst) : inst[j].vals.rel = ev.hit

\* C12: no step moves a row object backward: existsOnCoda, once true, stays
\* true, and isFetched, once true, stays true.
C12_NoBackward ==
    [][\A i \in Inst :
        /\ inst[i].existsOnCoda => inst'[i].existsOnCoda
        /\ inst[i].isFetched => inst'[i].isFetched]_vars

\* A row was inserted, fetched by a refresh, updated and deleted, and a
\* later refresh found it gone: it is still marked existing and fetched.
C12_Witness ==
    /\ ev.op = "done" /\ ev.out = "error" /\ ev.row \in NewSlots
    /\ inst[ev.row].existsOnCoda /\ inst[ev.row].isFetched
    /\ <<getTableId(inst[ev.row].cls), inst[ev.row].vals.id>> \notin remoteRows

\* C16: update(row) puts in its request the cells of exactly the fields
\* getDirtyValues() reports when it is called, the id field left out; and
\* when the request succeeds the row has isDirty() false and no dirty
\* value, with getValues() as it was before the response.
C16_UpdateSendsDirty ==
    [][/\ (ev'.op = "update" /\ ev'.out = "sent") =>
            /\ ev'.cells = getDirtyValues(inst[ev'.row]) \ {"id"}
            /\ "id" \notin ev'.cells
       /\ ev'.op = "updated" =>
            /\ Clean(inst'[ev'.row])
            /\ getValues(inst'[ev'.row]) = getValues(inst[ev'.row])]_vars

\* An update of a row with an unsaved name succeeded: the row is clean and
\* keeps the name.
C16_Witness ==
    /\ ev.op = "updated" /\ ev.edited
    /\ inst[ev.row].vals.id # Undef
    /\ inst[ev.row].vals.name # Undef
    /\ inst[ev.row].orig.name = inst[ev.row].vals.name
    /\ Clean(inst[ev.row])

\* The rows a failed request was sent for.
FailedRows(e) == {i \in Inst : i = e.row \/ \E n \in 1..Len(e.rows) : e.rows[n] = i}

\* C17: when the request of an insert, update or updateBatch fails, the step
\* that delivers the failure leaves every row object (values, snapshot,
\* isDirty, id, state flags) and the cache as they were, so the rows of the
\* call report the same dirty fields and a retry sends the same cells.
C17_FailedSaveKeepsDirty ==
    [][(ev'.op = "failed" /\ ev'.field \in {"insert", "update", "batch"}) =>
        /\ inst' = inst
        /\ cache' = cache
        /\ \A i \in FailedRows(ev') :
            /\ getDirtyValues(inst'[i]) = getDirtyValues(inst[i])
            /\ isDirty(inst'[i]) = isDirty(inst[i])
            /\ parseCodaRow(inst'[i], {}) = parseCodaRow(inst[i], {})]_vars

\* The update of an inserted row with an unsaved name failed: the name is
\* still reported dirty.
C17_Witness ==
    /\ ev.op = "failed" /\ ev.field = "update"
    /\ inst[ev.row].existsOnCoda
    /\ inst[ev.row].orig.has
    /\ "name" \in getDirtyValues(inst[ev.row])
    /\ parseCodaRow(inst[ev.row], {}) = {"name"}

\* The row has no id, or was never attached to a mapper.
NotPersisted(e) == e.vals.id = Undef \/ ~e.mapper

\* The requests a step sent.
Sent(before, after) == {q \in BagToSet(after) : CopiesIn(q, after) > CopiesIn(q, before)}

\* C18: refresh, update and delete called on a row that has no id, or that
\* has an id but was never attached to a mapper, fail: no step sends a
\* request on behalf of such a row, the call ends in an error, and it
\* leaves every row object, the cache and the requests in flight unchanged.
C18_NotPersistedRejected ==
    [][/\ \A q \in Sent(reqs, reqs') : \A i \in FailedRows(q) : ~NotPersisted(inst[i])
       /\ (/\ ev'.op \in {"refresh", "update", "delete"}
           /\ \E i \in FailedRows(ev') : NotPersisted(inst[i])) =>
            ev'.out = "error"
       /\ (ev'.op \in {"refresh", "update", "delete"} /\ ev'.out = "error") =>
            /\ inst' = inst
            /\ cache' = cache
            /\ reqs' = reqs]_vars

\* update was called on a row that the caller gave an id but that no fetch
\* or insert attached to a mapper, while the cache holds a fetched row of
\* that id: the call failed.
C18_Witness ==
    /\ ev.op = "update" /\ ev.out = "error"
    /\ inst[ev.row].vals.id # Undef
    /\ ~inst[ev.row].mapper
    /\ cache[RefreshKey(inst[ev.row])] # 0
    /\ cache[RefreshKey(inst[ev.row])] # ev.row


\* C19: when the document does not hold the row, get(table, id) returns
\* null and not an error, and the cache and every row object are as they
\* were; a request of get that fails in any other way makes get throw.
C19_GetNotFoundIsNull ==
    [][\A q \in Sent(reqs', reqs) :
         /\ (q.kind = "get" /\ ev'.op = "done" /\ q.key \notin remoteRows) =>
               /\ q.row = 0 => ev'.out = "null" /\ ev'.res = 0
               /\ inst' = inst
               /\ cache' = cache
         /\ (q.kind = "get" /\ q.row = 0 /\ ev'.op = "failed") =>
               ev'.out = "error"]_vars

\* get of a row that was fetched, cached and then deleted from the document
\* has returned null, the fetched row object still in the cache.
C19_Witness ==
    /\ ev.op = "done"
    /\ ev.out = "null"
    /\ ev.key \notin remoteRows
    /\ cache[ev.key] # 0
    /\ inst[cache[ev.key]].isFetched
    /\ inst[cache[ev.key]].existsOnCoda

\* A get of a row the document does not hold has failed otherwise.
C19_FailureSeen ==
    /\ ev.op = "failed"
    /\ ev.field = "get"
    /\ ev.row = 0
    /\ ev.out = "error"
    /\ ev.key \notin remoteRows


\* The value of the last write's field holds a value of a kind the relation
\* field is declared for: undefined, or row objects of the relation class.
Mismatch(I, e, f, v) ==
    IF f = "rels"
    THEN \E n \in 1..Len(v.items) : ~InstanceOf(I, v.items[n], RelClass(e.cls))
    ELSE v # 0 /\ ~InstanceOf(I, v, RelClass(e.cls))

\* C13: a write to a relation field of a value that is no instance of the
\* declared relation class, or of an array with such an element, fails with
\* an error naming the expected and the actual class, and leaves the field,
\* the snapshot and isDirty() as they were.  So after a write that did not
\* fail the field holds no such value.
C13_MismatchRejected ==
    /\ ev.op = "write" /\ ev.out = "ok" /\ ev.field \in {"rel", "rels"}
         => ~Mismatch(inst, inst[ev.row], ev.field, inst[ev.row].vals[ev.field])
    /\ \A i \in Used(inst) :
         /\ ~Mismatch(inst, inst[i], "rel", inst[i].vals.rel)
         /\ ~Mismatch(inst, inst[i], "rels", inst[i].vals.rels)

\* What does hold of the relation check: a write that fails names the
\* declared class and the class of the value it met, which is no instance
\* of the declared class, and changes nothing; a truthy value or an array
\* element that is no instance always makes the write fail.
C13_TruthyMismatchRejected ==
    [][/\ (ev'.op = "write" /\ ev'.out = "error") =>
            /\ inst' = inst
            /\ ev'.msg[1] = RelClass(inst[ev'.row].cls)
            /\ ev'.msg[2] # ev'.msg[1]
       /\ \A i \in Used(inst') :
            /\ Truthy(inst'[i].vals.rel) =>
                  InstanceOf(inst', inst'[i].vals.rel, RelClass(inst'[i].cls))
            /\ \A n \in 1..Len(inst'[i].vals.rels.items) :
                  InstanceOf(inst', inst'[i].vals.rels.items[n], RelClass(inst'[i].cls))]_vars

\* A row whose relation field holds a row of the declared class, snapshot
\* taken, was assigned a row of its own class: the write failed.
C13_Witness ==
    /\ ev.op = "write" /\ ev.out = "error"
    /\ ev.field = "rel"
    /\ ev.msg = <<"T2", "T1">>
    /\ inst[ev.row].orig.has
    /\ InstanceOf(inst, inst[ev.row].vals.rel, "T2")
    /\ ~isDirty(inst[ev.row])

\* An array write failed on an element that is a string.
C13_ArrayRejected ==
    /\ ev.op = "write" /\ ev.out = "error"
    /\ ev.field = "rels"
    /\ ev.msg = <<"T2", "String">>
    /\ inst[ev.row].vals.rels.isArray


\* C20: a cell holding the empty string decodes to an empty array for a
\* multiple scalar column and for a multiple relation column, to undefined
\* for a single relation column and to the empty string for a single
\* scalar column.
C20_EmptyStringCells ==
    ev.op = "parsed" =>
      \A prop \in Columns :
        ev.cells[prop] = Str(<<>>) =>
          ev.values[prop] = IF getMultiple(prop) THEN List(<<>>)
                            ELSE IF getRelation(prop) THEN Undefined
                            ELSE Str(<<>>)

\* What does hold of the empty string: it decodes to an empty array for a
\* multiple column and to the empty string for any other column, declared
\* a relation or not.
C20_EmptyStringBySingleOrMultiple ==
    ev.op = "parsed" =>
      \A prop \in Columns :
        ev.cells[prop] = Str(<<>>) =>
          ev.values[prop] = IF getMultiple(prop) THEN List(<<>>) ELSE Str(<<>>)

\* The response of the test, every cell the empty string, has been parsed.
C20_Witness ==
    /\ ev.op = "parsed"
    /\ \A prop \in Columns : ev.cells[prop] = Str(<<>>)
    /\ ev.values["emptyRelation"] = Str(<<>>)


\* The fetch that a read of holder.rel started has completed, its response
\* referencing the holder's row, the holder fetched.
HopResolved(holder, row) ==
    /\ ev'.op = "done" /\ ev'.out = "ok"
    /\ ev'.holder = holder /\ ev'.row = row
    /\ inst[holder].isFetched
    /\ ev'.dto.rel = RefreshKey(inst[holder])

\* The cycle holder -> row -> holder is closed: each holds the other, both
\* are fetched, and a read of either relation field returns synchronously.
CycleClosed(I, holder, row) ==
    /\ I[row].vals.rel = holder
    /\ I[row].isFetched
    /\ GetTrapRel(I, row) = [out |-> "sync", res |-> holder]
    /\ GetTrapRel(I, holder) = [out |-> "sync", res |-> row]

\* One request more is in flight than before a step that sent one.
OneFetchPerRead ==
    reqs' # reqs /\ ev'.op = "call" => BagCardinality(reqs') = BagCardinality(reqs) + 1

ArrItems(e) == {e.arr[n] : n \in 1..Len(e.arr)}

\* What a read of row.rels returns and when its deferred value settles: the
\* array at once exactly when no element is a placeholder; a deferred value
\* that resolves with the array read, in its order, only when no refresh
\* of the read is in flight any more, and that rejects when a refresh
\* fails.
ReadSettles ==
    /\ ev'.op = "read" =>
         /\ ev'.arr = inst[ev'.holder].vals.rels.items
         /\ ev'.read = "sync" <=> \A i \in ArrItems(ev') : ~IsPlaceholder(inst[i])
         /\ ev'.read = "pending" =>
               BagCardinality(reqs') = BagCardinality(reqs)
                 + Cardinality({n \in 1..Len(ev'.arr) : IsPlaceholder(inst[ev'.arr[n]])})
    /\ \A q \in Sent(reqs', reqs) :
         q.join # 0 =>
           /\ ev'.arr = q.arr
           /\ ev'.read = "resolved" =>
                 ev'.out = "ok" /\ \A p \in BagToSet(reqs') : p.join # q.join
           /\ ev'.out = "error" =>
                 ev'.read = "rejected" /\ \A p \in BagToSet(reqs') : p.join # q.join
           /\ ev'.read = "pending" => \E p \in BagToSet(reqs') : p.join = q.join

C14_Rejected ==
    /\ ev.read = "rejected"
    /\ \E q \in Pending : q.holder = ev.holder /\ q.arr = ev.arr /\ q.join = 0

\* A read of an array assigned by the caller, of a placeholder and a row
\* never saved, has resolved.
C14_NewRowResolved ==
    /\ ev.read = "resolved"
    /\ \E i \in ArrItems(ev) : ~inst[i].existsOnCoda
    /\ \E i \in ArrItems(ev) : inst[i].isFetched


\* What a scalar wire value decodes to, with the cache C the decode left.
DecodedScalar(value, C) ==
    IF value.type = "string" THEN decodeString(value.chars, FALSE, FALSE)
    ELSE IF value.type = "StructuredValue" THEN Row(C[value.key])
    ELSE IF value.type \in RichTypes THEN value.scalar
    ELSE value

\* C21: for a field declared multiple, every wire value that is neither an
\* array nor the empty string decodes to a one-element array holding the
\* decoded scalar, so the decoded value of a multiple field is an array.
C21_MultipleWrapsScalars ==
    ev.op = "decoded" /\ ev.multiple /\ ~ev.err =>
      /\ ev.val.type = "array"
      /\ ev.value.type # "array" /\ ev.value # Str(<<>>) =>
           ev.val = List(<<DecodedScalar(ev.value, cache)>>)

\* What does hold of a multiple field: every value that is neither an
\* array nor a string is wrapped, and a string other than '' decodes to the
\* string itself.
C21_MultipleWrapsNonStrings ==
    ev.op = "decoded" /\ ev.multiple /\ ~ev.err /\ ev.value.type # "array" =>
      ev.val = IF ev.value = Str(<<>>) THEN List(<<>>)
               ELSE IF ev.value.type = "string" THEN DecodedScalar(ev.value, cache)
               ELSE List(<<DecodedScalar(ev.value, cache)>>)

\* A number cell of a multiple field has been decoded to a one-element
\* array.
C21_Witness ==
    /\ ev.op = "decoded" /\ ev.multiple
    /\ ev.value = Num(1)
    /\ ev.val = List(<<Num(1)>>)


\* C22: decoding a relation reference cell for a key, the field declared a
\* relation: if the cache has an entry for the key, that row object is the
\* decoded value; otherwise a new row object of the declared related class
\* is constructed with id = the referenced row id, existsOnCoda true and
\* isFetched false, is registered in the cache under the key, and is the
\* decoded value.
C22_RelationDecode ==
    [][\A key \in Keys :
         ev'.op = "decoded" /\ ev'.value = Ref(key) /\ ev'.relation
           /\ ~ev'.multiple =>
             /\ ~ev'.err
             /\ ev'.val.type = "row"
             /\ IF cache[key] # 0
                THEN ev'.val = Row(cache[key]) /\ cache' = cache /\ inst' = inst
                ELSE /\ ev'.val.i \notin Used(inst)
                     /\ inst'[ev'.val.i].cls = RelClass("T1")
                     /\ inst'[ev'.val.i].vals.id = key[2]
                     /\ inst'[ev'.val.i].existsOnCoda
                     /\ ~inst'[ev'.val.i].isFetched
                     /\ cache' = [cache EXCEPT ![key] = ev'.val.i]
                     /\ \A i \in Used(inst) : inst'[i] = inst[i]]_vars

\* A relation reference has been decoded to the only row object there is,
\* a placeholder registered under the referenced key.
C22_Witness ==
    /\ ev.op = "decoded" /\ ev.value = Ref(<<"T2", "r1">>)
    /\ ev.relation /\ ~ev.multiple
    /\ ev.val = Row(cache[<<"T2", "r1">>])
    /\ Used(inst) = {ev.val.i}
    /\ IsPlaceholder(inst[ev.val.i])


C23_CachedReturned ==
    /\ ev.op = "decoded" /\ ev.value = Ref(<<"T2", "r1">>)
    /\ ~ev.relation /\ ~ev.multiple /\ ~ev.err
    /\ ev.val = Row(cache[<<"T2", "r1">>])


\* The row objects a relation field of row object e refers to.
Referenced(e, f) ==
    IF f = "rel" THEN {e.vals.rel} \cap Inst
    ELSE {e.vals.rels.items[n] : n \in 1..Len(e.vals.rels.items)} \cap Inst

\* C24: encoding a relation field for a write yields the id of the row
\* object referred to, and the write fails, sending no request, when that
\* row object, or any element of a relation array, has no id: a request
\* that was sent holds no reference to a row object without id.
C24_EncodeNeedsRowId ==
    ev.op = "update" /\ ev.out = "sent" =>
      \A f \in ev.cells \cap {"rel", "rels"} :
        /\ ev.sent[f] = encodeValue(inst, f, inst[ev.row].vals[f])
        /\ \A j \in Referenced(inst[ev.row], f) : inst[j].vals.id # Undef

\* What does hold of the encoding: the cell of a relation field holds the
\* id of the row object referred to, an array the ids of its elements in
\* order, whether they are set or undefined.
C24_EncodeYieldsId ==
    ev.op = "update" /\ ev.out = "sent" =>
      /\ "rel" \in ev.cells /\ inst[ev.row].vals.rel \in Inst =>
           ev.sent.rel = [kind |-> "id",
                          ids |-> <<inst[inst[ev.row].vals.rel].vals.id>>]
      /\ "rels" \in ev.cells /\ inst[ev.row].vals.rels.isArray =>
           /\ ev.sent.rels.kind = "array"
           /\ Len(ev.sent.rels.ids) = Len(inst[ev.row].vals.rels.items)
           /\ \A n \in 1..Len(ev.sent.rels.ids) :
                ev.sent.rels.ids[n] = inst[inst[ev.row].vals.rels.items[n]].vals.id

\* An update has sent the id of the row its relation field refers to.
C24_Witness ==
    /\ ev.op = "update" /\ ev.out = "sent"
    /\ "rel" \in ev.cells
    /\ ev.sent.rel = [kind |-> "id", ids |-> <<"r2">>]


\* The row objects of key k that the cache C does not hold: after a clear,
\* the row objects of the key handed out before it.
Orphans(I, C, k) ==
    {i \in Used(I) : /\ I[i].mapper /\ I[i].cls = k[1] /\ I[i].vals.id = k[2]
                     /\ C[k] # i}

\* A step of _clearCache() on a cache that holds an entry.
ClearStep == cache' = [k \in Keys |-> 0] /\ cache' # cache

\* C25: _clearCache() empties the cache and changes no field value,
\* snapshot or state flag of any row object; a row object handed out before
\* the clear stays as it is, and the next fetch of its key after the clear
\* returns a different row object, newly registered in the cache.
C25_ClearThenFetchIsNew ==
    [][/\ ClearStep => inst' = inst /\ reqs' = reqs
       /\ ev'.op = "done" /\ ev'.out = "ok" =>
            /\ ev'.res = cache'[ev'.key]
            /\ ev'.res \notin Orphans(inst, cache, ev'.key)]_vars

\* C25 as amended: the same of _clearCache(); the next get of the key
\* returns a different row object, registered in the cache since the clear
\* (constructed by this get when the cache holds none), while a refresh
\* returns the row object it was called on, orphaned or not.
C25_ClearThenGetIsNew ==
    [][/\ ClearStep => inst' = inst /\ reqs' = reqs
       /\ ev'.op = "done" /\ ev'.out = "ok" =>
            IF ev'.row = 0
            THEN /\ ev'.res = cache'[ev'.key]
                 /\ ev'.res \notin Orphans(inst, cache, ev'.key)
                 /\ cache[ev'.key] = 0 => ev'.res \notin Used(inst)
            ELSE ev'.res = ev'.row]_vars

\* After a clear a get has returned a row object for a key of which the
\* caller holds another, fetched before the clear and named by the caller
\* since.
C25_Witness ==
    /\ ev.op = "done" /\ ev.out = "ok" /\ ev.row = 0
    /\ ev.res = cache[ev.key]
    /\ \E i \in Orphans(inst, cache, ev.key) :
         inst[i].isFetched /\ isDirty(inst[i])


Count404(answers) == Cardinality({n \in 1..Len(answers) : answers[n] = "notFound"})
Run404(answers) ==
    Cardinality({n \in 1..Len(answers) :
                   \A m \in n..Len(answers) : answers[m] = "notFound"})
LastAnswer(answers) == IF answers = <<>> THEN "none" ELSE answers[Len(answers)]

\* C27 (as stated): waitForMutation retries 404 answers only while they are
\* consecutive: it throws its "after 5 attempts" error exactly when the
\* last five answers were 404s, a 404 after a not-yet-completed answer being
\* the first of a new count; any other failure ends the wait at once.
C27_FailsOnFifthConsecutive404 ==
    /\ (wait.err = "attempts") <=> Run404(wait.answers) >= Attempts
    /\ LastAnswer(wait.answers) = "error" => wait.pc = "thrown" /\ wait.err = "rethrown"

\* C27 (amended): waitForMutation counts the 404 answers of the whole wait,
\* consecutive or not, and never resets the count: it throws its "after 5
\* attempts" error exactly on the fifth 404 in total, goes on polling below
\* that, and any other failure ends the wait at once.
C27_FailsOnFifth404 ==
    /\ wait.failCounter = Count404(wait.answers)
    /\ (wait.err = "attempts") <=>
          (Count404(wait.answers) = Attempts /\ LastAnswer(wait.answers) = "notFound")
    /\ wait.pc = "delay" =>
          /\ Count404(wait.answers) < Attempts
          /\ \A n \in 1..Len(wait.answers) : wait.answers[n] \in {"pending", "notFound"}
    /\ LastAnswer(wait.answers) = "error" => wait.pc = "thrown" /\ wait.err = "rethrown"
    /\ LastAnswer(wait.answers) = "notFound" /\ Count404(wait.answers) < Attempts
          => wait.pc = "delay"

\* The wait failed on its fifth 404 although a not-yet-completed answer came
\* between the 404s.
C27_Witness ==
    /\ wait.err = "attempts"
    /\ Run404(wait.answers) < Attempts
    /\ \E n \in 1..Len(wait.answers) : wait.answers[n] = "pending"


\* Row object i is what parsing the response row dto yields: the row's id,
\* existsOnCoda and isFetched set, each field holding its decoded cell (for
\* a relation cell the cached row object of the referenced key, for an
\* absent cell undefined) and nothing dirty.
DecodedRels(dto) ==
    IF dto.rels.kind = "absent" THEN NoArr
    ELSE Arr([n \in 1..Len(dto.rels.keys) |-> cache[dto.rels.keys[n]]])
IsParsedFrom(i, dto) ==
    /\ i \in Used(inst)
    /\ inst[i].vals.id = dto.id
    /\ inst[i].existsOnCoda /\ inst[i].isFetched
    /\ inst[i].vals.name = dto.name
    /\ inst[i].vals.rel = DecodedRel(dto)
    /\ dto.rel # NoKey => inst[i].vals.rel # 0
    /\ inst[i].vals.rels = DecodedRels(dto)
    /\ Clean(inst[i])

\* C28: every row object that get, find, all or first returns has the id of
\* its response row, existsOnCoda and isFetched true, field values equal to
\* the decoded cells of that row, isDirty() false and getDirtyValues()
\* empty.
C28_FetchedRowsMatchResponse ==
    /\ (ev.op = "done" /\ ev.out = "ok" /\ ev.row = 0) => IsParsedFrom(ev.res, ev.dto)
    /\ ev.op = "listed" =>
          /\ Len(ev.items) = Len(ev.dtos)
          /\ \A n \in 1..Len(ev.items) : IsParsedFrom(ev.items[n], ev.dtos[n])
          /\ ev.res # 0 => ev.res = ev.items[1]

\* A list returned two row objects, one of which references a row.
C28_Witness ==
    /\ ev.op = "listed"
    /\ Len(ev.items) = 2
    /\ ev.items[1] # ev.items[2]
    /\ \E n \in 1..2 : ev.dtos[n].rel # NoKey /\ inst[ev.items[n]].vals.rel # 0


\* The row objects the caller constructed whose snapshot was never reset:
\* _original is still the {} of the constructor.
NeverReset(I) == {i \in NewSlots \cap Used(I) : ~I[i].orig.has}

\* C29: a row object the caller constructed, until its first _resetDirty(),
\* has existsOnCoda false and isFetched false; after a write of a field
\* (of any value, undefined included) getDirtyValues() holds that field and
\* isDirty() is true, and they go on holding every field that has a value.
C29_NewRowWritesAreDirty ==
    [][\A i \in NeverReset(inst') :
         /\ ~inst'[i].existsOnCoda /\ ~inst'[i].isFetched
         /\ (ev'.op = "write" /\ ev'.row = i) =>
               ev'.field \in getDirtyValues(inst'[i]) /\ isDirty(inst'[i])
         /\ \A f \in Fields :
               getValues(inst'[i])[f] # UndefOf(f) =>
                 f \in getDirtyValues(inst'[i]) /\ isDirty(inst'[i])
         /\ (i \in NeverReset(inst) /\ isDirty(inst[i])) => isDirty(inst'[i])]_vars

\* A row object the caller constructed had name and rel written, the last
\* write being of undefined, and was never reset.
C29_Witness ==
    /\ ev.op = "write" /\ ev.row \in NeverReset(inst)
    /\ ev.field = "rel" /\ inst[ev.row].vals.rel = 0
    /\ inst[ev.row].vals.name # Undef
    /\ isDirty(inst[ev.row])
    /\ {"name", "rel"} \subseteq getDirtyValues(inst[ev.row])


\* C30: getValues(), getDirtyValues() and isDirty() are pure reads.  A call
\* changes no row object (field, snapshot, flag) and no cache entry and
\* sends no request, whatever the relation field holds; what getValues()
\* has for rel is the stored row object, returned at once.
C30_ReadsArePure ==
    [][ev'.op = "read" =>
         /\ inst' = inst
         /\ cache' = cache
         /\ reqs' = reqs
         /\ ev'.read = "sync"
         /\ ev'.res = inst[ev'.row].vals.rel]_vars

\* getValues() was called on a row whose rel holds a placeholder, with no
\* request in flight before or after.
C30_Witness ==
    /\ ev.op = "read" /\ ev.field = "getValues"
    /\ ev.res # 0 /\ IsPlaceholder(inst[ev.res])
    /\ inst[ev.row].vals.rel = ev.res
    /\ reqs = EmptyBag


\* _getState() of a row object, by the names of the specification.
StateOf(e) ==
    IF e.existsOnCoda /\ e.isFetched THEN "SYNCED"
    ELSE IF e.existsOnCoda THEN "PLACEHOLDER"
    ELSE IF e.isFetched THEN "FETCHED_ONLY"
    ELSE "NEW"

\* The row objects that exist before and after a step and whose state the
\* step changed.
Moved(I, J) == {i \in Used(I) \cap Used(J) : StateOf(I[i]) # StateOf(J[i])}

\* C31 as stated: the state of a row object changes only from NEW to SYNCED
\* when an insert of it succeeds and from PLACEHOLDER to SYNCED when a fetch
\* of its key completes; a refresh leaves a SYNCED row SYNCED; every row of a
\* successful insert is SYNCED after it.
C31_TransitionsAsStated ==
    [][/\ \A i \in Moved(inst, inst') :
            \/ /\ StateOf(inst[i]) = "NEW" /\ StateOf(inst'[i]) = "SYNCED"
               /\ ev'.op = "inserted" /\ \E n \in 1..Len(ev'.rows) : ev'.rows[n] = i
            \/ /\ StateOf(inst[i]) = "PLACEHOLDER" /\ StateOf(inst'[i]) = "SYNCED"
               /\ ev'.op = "done" /\ ev'.out = "ok"
       /\ ev'.op = "inserted" =>
            \A n \in 1..Len(ev'.rows) : StateOf(inst'[ev'.rows[n]]) = "SYNCED"]_vars

\* C31 as amended: the state of a row object changes only from NEW to
\* PLACEHOLDER (existsOnCoda true, isFetched false) when an insert of it
\* succeeds, and from PLACEHOLDER to SYNCED when a row response of its key is
\* merged into it, it being the row parseDtoRow returns (a resolution fetch,
\* a get, a refresh); every row of a successful insert that was NEW is
\* PLACEHOLDER after it, and a refresh of a SYNCED row leaves it SYNCED.
C31_Transitions ==
    [][/\ \A i \in Moved(inst, inst') :
            \/ /\ StateOf(inst[i]) = "NEW" /\ StateOf(inst'[i]) = "PLACEHOLDER"
               /\ ev'.op = "inserted" /\ \E n \in 1..Len(ev'.rows) : ev'.rows[n] = i
            \/ /\ StateOf(inst[i]) = "PLACEHOLDER" /\ StateOf(inst'[i]) = "SYNCED"
               /\ ev'.op = "done" /\ ev'.out = "ok" /\ ev'.parsed = i
       /\ ev'.op = "inserted" =>
            \A n \in 1..Len(ev'.rows) :
                StateOf(inst[ev'.rows[n]]) = "NEW" =>
                    StateOf(inst'[ev'.rows[n]]) = "PLACEHOLDER"
       /\ (ev'.op = "done" /\ ev'.out = "ok" /\ ev'.row # 0
           /\ StateOf(inst[ev'.row]) = "SYNCED") =>
            StateOf(inst'[ev'.row]) = "SYNCED"]_vars

\* A row the caller constructed and inserted was then refreshed: the
\* response was merged into it and it is SYNCED.
C31_Witness ==
    /\ ev.op = "done" /\ ev.out = "ok"
    /\ ev.row \in NewSlots /\ ev.parsed = ev.row
    /\ StateOf(inst[ev.row]) = "SYNCED"


\* The fetches in flight that reads of a relation field issued for the row
\* object item.
Fetches(B, item) ==
    Cardinality({<<q, n>> \in BagToSet(B) \X (1..MaxPending + 1) :
                    /\ q.kind = "get" /\ q.row = item /\ q.holder # 0
                    /\ n <= B[q]})

\* C32: every read of the relation field rel whose row object is a
\* placeholder at the moment of the read returns a promise and sends one
\* more GET of that row's key, however many GETs earlier reads of it have
\* in flight: the reads made before the first response each have their own.
C32_EveryReadFetches ==
    [][(/\ ev'.op = "read" /\ ev'.field = "rel" /\ ev'.res # 0
        /\ IsPlaceholder(inst[ev'.res])) =>
          /\ ev'.read = "pending"
          /\ Fetches(reqs', ev'.res) = Fetches(reqs, ev'.res) + 1
          /\ \A q \in BagToSet(reqs') :
                (q.kind = "get" /\ q.row = ev'.res /\ q.holder # 0) =>
                    q.key = RefreshKey(inst[ev'.res])]_vars

\* A second read of a placeholder made while the fetch of the first read
\* was in flight: two fetches of its key are in flight.
C32_Witness ==
    /\ ev.op = "read" /\ ev.field = "rel" /\ ev.read = "pending"
    /\ IsPlaceholder(inst[ev.res])
    /\ Fetches(reqs, ev.res) = 2


\* C33 as stated: when refresh(row) completes, the promise resolves to the
\* row object that was passed, and that object has isFetched set and holds
\* the decoded cells of the response, whether or not it is the cache entry
\* of its key.
C33_RefreshUpdatesPassedRow ==
    (ev.op = "done" /\ ev.out = "ok" /\ ev.row # 0) =>
        /\ ev.res = ev.row
        /\ inst[ev.row].existsOnCoda /\ inst[ev.row].isFetched
        /\ inst[ev.row].vals.id = ev.dto.id
        /\ inst[ev.row].vals.name = ev.dto.name
        /\ inst[ev.row].vals.rel = DecodedRel(ev.dto)
        /\ inst[ev.row].vals.rels = DecodedRels(ev.dto)


\* Whether value v of field f differs from the snapshot's value o, two
\* arrays differing when they differ in length or at some position.
DiffersInFull(f, v, o) ==
    IF f = "rels" /\ v.isArray /\ o.isArray THEN v.items # o.items ELSE v # o

\* C34 as stated: on a row with a snapshot, getDirtyValues() contains a
\* field exactly when its current value differs from the snapshot's, an
\* array shortened to a proper prefix of the snapshot's array or emptied
\* included.
C34_DirtyIffDiffers ==
    \A i \in Used(inst) :
        inst[i].orig.has =>
            \A f \in Fields :
                f \in getDirtyValues(inst[i])
                    <=> DiffersInFull(f, getValues(inst[i])[f], inst[i].orig[f])


\* C35 as stated: a name written on a row after update(row) has sent its
\* PUT and before the response, so that the row holds a value that was not
\* sent, is still in getDirtyValues(), and isDirty() is true, when the
\* update has completed.  (Callers write "b" only while the update is in
\* flight, and an update that completes leaves nothing dirty: a dirty "b"
\* before the response was written after the PUT was sent.)
C35_LateWriteStaysDirty ==
    [][(/\ ev.op = "write" /\ ev.field = "name"
        /\ inst[ev.row].vals.name = "b"
        /\ "name" \in getDirtyValues(inst[ev.row])
        /\ ev'.op = "updated" /\ ev'.row = ev.row) =>
          /\ "name" \in getDirtyValues(inst'[ev.row])
          /\ isDirty(inst'[ev.row])]_vars


\* C36: when the fetch that a read of a relation field started finds no
\* row, the promise of the read rejects; no row object and no cache entry
\* changes, so the placeholder keeps existsOnCoda true, isFetched false,
\* its id and its place in the cache, and the next read of a field that
\* holds it returns a promise of a new refresh.
C36_NotFoundKeepsPlaceholder ==
    [][(ev'.op = "done" /\ ev'.holder # 0 /\ ev'.key \notin remoteRows) =>
          /\ ev'.out = "error"
          /\ inst' = inst
          /\ cache' = cache
          /\ IsPlaceholder(inst[ev'.row]) =>
                /\ IsPlaceholder(inst'[ev'.row])
                /\ inst'[ev'.row].vals.id = ev'.key[2]
                /\ CanRefresh(inst'[ev'.row])
                /\ inst'[ev'.holder].vals.rel = ev'.row =>
                      GetTrapRel(inst', ev'.holder) = [out |-> "deferred", res |-> ev'.row]]_vars

\* The fetch of a read found no row: the read failed and the placeholder it
\* was for is still an unfetched placeholder and the cache entry of its key.
C36_Witness ==
    /\ ev.op = "done" /\ ev.out = "error" /\ ev.holder # 0
    /\ ev.key \notin remoteRows
    /\ IsPlaceholder(inst[ev.row])
    /\ cache[ev.key] = ev.row
    /\ inst[ev.holder].vals.rel = ev.row


\* C37: when the decode of a cell of a row response throws, get fails and
\* every row object that existed keeps its values, snapshot, dirty flag and
\* state flags, the row cached for the response's key among them, and the
\* cache keeps that entry; when no decode throws the cached row holds every
\* value of the response: a response is merged whole or not at all.
C37_FailedParseMergesNothing ==
    [][/\ (ev'.op = "done" /\ ev'.out = "error") =>
            /\ \A i \in Used(inst) : inst'[i] = inst[i]
            /\ cache[ev'.key] # 0 =>
                 /\ cache'[ev'.key] = cache[ev'.key]
                 /\ inst'[cache[ev'.key]] = inst[cache[ev'.key]]
       /\ (ev'.op = "done" /\ ev'.out = "ok" /\ ev'.key[1] = "T1") =>
            /\ inst'[ev'.parsed].vals.name = ev'.dto.name
            /\ inst'[ev'.parsed].vals.id = ev'.dto.id
            /\ (ev'.dto.rel # Absent) =>
                 inst'[ev'.parsed].vals.rel = cache'[ev'.dto.rel.key]
            /\ (ev'.dto.rels # Absent) => inst'[ev'.parsed].vals.rels.isArray
            /\ inst'[ev'.parsed].isFetched
            /\ Clean(inst'[ev'.parsed])]_vars

\* The decode of the rels cell of a response threw for want of a declared
\* relation, after the rel cell was decoded: the row cached for the key,
\* fetched before and edited since, is still dirty.
C37_Witness ==
    /\ ev.op = "done" /\ ev.out = "error" /\ ev.field = "rels"
    /\ ev.dto.rel # Absent
    /\ cache[ev.key] # 0 /\ cache[ev.key] = ev.hit
    /\ inst[ev.hit].isFetched
    /\ "name" \in getDirtyValues(inst[ev.hit])
    /\ inst[ev.hit].vals.name # ev.dto.name


\* C38: waitForMutation has returned only when its last poll answered
\* completed = true: it polled at least once, every poll before the last
\* answered completed = false or failed with a 404, and it is the first
\* answer of completed = true that ends the wait.
C38_ReturnsAfterCompleted ==
    wait.pc = "returned" =>
        /\ Len(wait.answers) >= 1
        /\ LastAnswer(wait.answers) = "completed"
        /\ wait.completed
        /\ \A n \in 1..(Len(wait.answers) - 1) :
              wait.answers[n] \in {"pending", "notFound"}

\* A wait returned on its fourth poll or later, after answers of
\* completed = false and 404s.
C38_Witness ==
    /\ wait.pc = "returned"
    /\ Len(wait.answers) >= 4
    /\ \E n \in 1..Len(wait.answers) : wait.answers[n] = "pending"
    /\ \E n \in 1..Len(wait.answers) : wait.answers[n] = "notFound"


\* C39: a wait that has entered its loop ends, the endpoint reporting the
\* request completed at some poll: it returns, unless before that a fifth
\* poll failed with a 404 or a poll failed otherwise; and a poll that
\* answers completed = false leaves the wait in its loop, neither returned
\* nor failed, so that a wait answered completed = false for ever never
\* ends.
C39_WaitEnds ==
    /\ (wait.pc = "delay") ~>
          \/ wait.pc = "returned"
          \/ wait.pc = "thrown" /\ wait.err = "attempts" /\ wait.failCounter >= Attempts
          \/ wait.pc = "thrown" /\ wait.err = "rethrown"
                /\ LastAnswer(wait.answers) = "error"
    /\ [][(wait.pc = "delay" /\ wait'.answers # wait.answers
           /\ LastAnswer(wait'.answers) = "pending") =>
             /\ wait'.pc = "delay" /\ wait'.err = "none"
             /\ ~wait'.completed
             /\ wait'.failCounter = wait.failCounter]_vars

\* A wait that returned after MaxPolls polls or more, four of them failed
\* with a 404.
C39_Witness ==
    /\ wait.pc = "returned"
    /\ Len(wait.answers) = MaxPolls
    /\ wait.failCounter = Attempts - 1
    /\ wait.answers[1] = "pending"

=============================================================================
